---- MODULE Spec2Model ----
(***************************************************************************)
(* State-machine model of the quotex-sdk-ts transport / dispatch stack:    *)
(*   SocketIOManager   (src/src/core/websocket/SocketIOManager.ts)         *)
(*   MarketDataManager (src/src/features/market-data/MarketDataManager.ts) *)
(* JavaScript is single threaded: every event handler, timer callback and  *)
(* public method runs to completion, so each is one atomic action.         *)
(***************************************************************************)
EXTENDS Integers, Sequences, FiniteSets, TLC

\* ------------------------------------------------------------------ bounds
MaxUserConnects == 1      \* connect() calls issued by the caller
MaxAttempts     == 2      \* largest configured reconnectAttempts explored
MaxPings        == 2      \* keepalive interval firings explored
MaxSubs         == 2      \* subscribe* calls explored
MaxCancelCalls  == 2      \* calls explored of one cancel handle
MaxFrames       == 1      \* inbound data frames explored (market data)
MaxWsFrames     == 2      \* inbound event frames explored (dispatcher)
MaxHistFrames   == 2      \* inbound candle / history payloads explored
MaxGets         == 1      \* getCandles calls explored
MaxReturned     == 1      \* getRealtimeCandles calls explored
MaxArrayLen     == 3      \* a caller pushes on arrays shorter than this
MaxCandles      == 4      \* longest candle series passed to an indicator
MaxPrice        == 1      \* prices of those candles: 0..MaxPrice
MaxClose        == 2      \* closes of the series passed to RSI: 0..MaxClose
MaxPeriod       == 2      \* largest indicator period explored

\* ------------------------------------------------------- program constants
DefaultReconnectAttempts == 5

NoSocket == 0
PriceStreamCap == 100
InstrumentsMin == 50
CandleCap == 1000
WindowCap == 100

\* ------------------------------------------------------------ input sets
Assets  == {"EURUSD", "GBPUSD"}
Periods == {0, 60}
Fns     == {"f", "g"}     \* the caller's callback functions
Times   == {1}
Channels == {"tick", "message"}
Handlers == {"h1", "h2"}   \* callbacks passed to SocketIOManager.subscribe
Prices  == {1, 2}

VARIABLES
  cfgReconnect,      \* config.reconnect
  cfgAttempts,       \* config.reconnectAttempts (0 = unset)
  token,             \* whether the caller supplies a credential token
  socket,            \* this.socket: id of the WebSocket held, NoSocket = null
  connected,         \* this.connected
  reconnectAttempt,  \* this.reconnectAttempt
  pingInterval,      \* this.pingInterval: handle held, 0 = null
  intervals,         \* setInterval handles that are still armed
  calls,             \* one record per connect() invocation (its socket, its
                     \* 10 s timeout, its promise, the retry timer it armed)
  nCalls,            \* connect() invocations so far
  nUser,             \* ... of which issued by the caller
  nPings,            \* keepalive firings so far
  userClosed,        \* disconnect() was called and no connect() since
  sent,              \* per socket, the frames handed to socket.send
  subscriptions,     \* MarketDataManager.subscriptions: the Map's entries in
                     \* insertion order, each a key and its Set (in order)
  handles,           \* cancel handles returned so far, with their call count
  candleStreams,     \* MarketDataManager.candleStreams
  nIngested,         \* per asset, the candles pushed on its buffer so far
  maxDropped,        \* per asset, the greatest time of a candle removed from
                     \* its buffer so far (-1: none was removed)
  lastIn,            \* the last market-data payload handled, and the length
                     \* of the asset's buffer before it
  priceStreams,      \* MarketDataManager.priceStreams
  nFrames,           \* inbound frames delivered so far
  invoked,           \* user callbacks invoked by the last inbound frame
  lastOp,            \* the last operation performed on the market-data API
  messageHandlers,   \* SocketIOManager.messageHandlers: channel -> Set (in
                     \* insertion order)
  dispatch,          \* what the last handleMessage did: its channel, the
                     \* handlers registered when it started and when it
                     \* ended, the handlers it invoked (in order), those
                     \* that threw, whether an earlier dispatch had a throw
  raw,               \* the last raw frame given to handleRawMessage, and the
                     \* revision of the method that handled it
  routed,            \* the handleMessage(channel, data) calls it made
  escaped,           \* whether an exception left handleRawMessage
  afterBad,          \* whether the frame before the last one was malformed
  gets,              \* the getCandles calls made so far: what each one
                     \* awaits and what it returned
  returned,          \* the arrays handed to the caller by getCandles and
                     \* getRealtimeCandles, as the caller holds them now
  clientConnected,   \* QuotexClient.connected
  clientPc,          \* per connect() of the caller, the position of
                     \* QuotexClient.connect around its ws.connect
  ind,               \* the closure state of the subscribeIndicator call:
                     \* isActive, historicalCandles, the computations whose
                     \* result has not been passed to the callback yet
  wsm,               \* the WebSocketManager: its state flags, its counter,
                     \* its socket, its timers and the promises of connect
  calc               \* the last IndicatorManager.calculate call: its
                     \* arguments and its outcome

connVars == <<cfgReconnect, cfgAttempts, token, socket, connected, reconnectAttempt,
              pingInterval, intervals, calls, nCalls, nUser, nPings,
              userClosed, sent>>
histVars == <<nIngested, maxDropped, lastIn>>
mdVars   == <<subscriptions, handles, candleStreams, histVars, priceStreams, nFrames,
              invoked, lastOp>>
codecVars == <<raw, routed, escaped, afterBad>>
wsVars   == <<messageHandlers, dispatch, codecVars>>
getVars  == <<gets, returned>>
clientVars == <<clientConnected, clientPc>>
extVars  == <<wsm, calc>>
apiVars  == <<getVars, clientVars, ind, extVars>>
vars     == <<connVars, mdVars, wsVars, apiVars>>

\* ------------------------------------------------------------ connection
MaxCalls == MaxUserConnects + MaxAttempts
CallIds  == 1..MaxCalls

NoCall == [state |-> "none", origin |-> "none",
           everOpen |-> FALSE, timeout |-> FALSE, resolved |-> "pending",
           retry |-> FALSE, sched |-> FALSE]

\* this.config.reconnectAttempts || 5
EffAttempts == IF cfgAttempts = 0 THEN DefaultReconnectAttempts ELSE cfgAttempts

\* resolve(v) of the promise of call c: only the first resolution counts
Resolve(cs, c, v) ==
  IF cs[c].resolved = "pending" THEN [cs EXCEPT ![c].resolved = v] ELSE cs

\* WebSocket.close(): CONNECTING/OPEN -> CLOSING, otherwise nothing
CloseSock(cs, s) ==
  IF s # NoSocket /\ cs[s].state \in {"connecting", "open"}
  THEN [cs EXCEPT ![s].state = "closing"] ELSE cs

\* SocketIOManager.send applied to the frames msgs, given the values of
\* this.socket, this.connected and the sockets' ready states at that moment.
\* socket.send on a CONNECTING socket throws (caught and logged), on a
\* CLOSING/CLOSED socket the frame is discarded.
Send(log, sk, conn, cs, msgs) ==
  IF sk = NoSocket \/ ~conn THEN log
  ELSE IF cs[sk].state = "open" THEN [log EXCEPT ![sk] = @ \o msgs]
  ELSE log

\* SocketIOManager.isConnected
IsConnected == connected /\ socket # NoSocket

\* an outbound frame: the event name (or the bare packet "2"), and the asset
\* and period of its payload when it has them
Msg(name) == <<name, "", 0>>

\* the frames sent by socket.onopen
OpenBurst(tok) ==
  << Msg("tick"), Msg("indicator/list"), Msg("drawing/load"),
     Msg("pending/list") >>
    \o (IF tok THEN <<Msg("authorization")>> ELSE <<>>)

\* the body of connect(): a new WebSocket replaces this.socket, handlers are
\* attached, the 10 s timeout is armed
DoConnect(cs, origin) ==
  [cs EXCEPT ![nCalls + 1] =
     [state |-> "connecting", origin |-> origin,
      everOpen |-> FALSE, timeout |-> TRUE, resolved |-> "pending",
      retry |-> FALSE, sched |-> FALSE]]

\* connect() called by the owner of the manager, who makes at most n calls
ConnectUpTo(n) ==
  /\ nUser < n
  /\ nCalls < MaxCalls
  /\ calls' = DoConnect(calls, "user")
  /\ socket' = nCalls + 1
  /\ nCalls' = nCalls + 1
  /\ nUser' = nUser + 1
  /\ userClosed' = FALSE
  /\ UNCHANGED <<apiVars, cfgReconnect, cfgAttempts, token, connected, reconnectAttempt,
                 pingInterval, intervals, nPings, sent, mdVars, wsVars>>

Connect == ConnectUpTo(MaxUserConnects)

\* socket.onopen of the socket created by call c
OnOpen(c) ==
  /\ c <= nCalls
  /\ calls[c].state = "connecting"
  /\ LET cs1 == [calls EXCEPT ![c].state = "open", ![c].everOpen = TRUE]
     IN /\ connected' = TRUE
        /\ sent' = Send(sent, socket, TRUE, cs1, OpenBurst(token))
        /\ pingInterval' = c
        /\ intervals' = intervals \cup {c}
        /\ calls' = Resolve(cs1, c, "true")
  /\ UNCHANGED <<apiVars, cfgReconnect, cfgAttempts, token, socket, reconnectAttempt, nCalls,
                 nUser, nPings, userClosed, mdVars, wsVars>>

\* the reconnect test of socket.onclose
MayReconnectAlways == cfgReconnect
MayReconnectLE == cfgReconnect /\ reconnectAttempt <= EffAttempts
MayReconnect == cfgReconnect /\ reconnectAttempt < EffAttempts

\* socket.onclose of the socket created by call c (stopPing, then
\* scheduleReconnect or resolve(false))
OnClose(c) ==
  /\ c <= nCalls
  /\ calls[c].state \in {"connecting", "open", "closing", "failing"}
  /\ connected' = FALSE
  /\ intervals' = intervals \ {pingInterval}
  /\ pingInterval' = 0
  /\ LET cs1 == [calls EXCEPT ![c].state = "closed"]
     IN IF MayReconnect
        THEN /\ reconnectAttempt' = reconnectAttempt + 1
             /\ calls' = [cs1 EXCEPT ![c].retry = TRUE, ![c].sched = TRUE]
        ELSE /\ reconnectAttempt' = reconnectAttempt
             /\ calls' = Resolve(cs1, c, "false")
  /\ UNCHANGED <<apiVars, cfgReconnect, cfgAttempts, token, socket, nCalls, nUser, nPings,
                 userClosed, sent, mdVars, wsVars>>

\* socket.onerror: the transport failed, a close event follows
OnError(c) ==
  /\ c <= nCalls
  /\ calls[c].state \in {"connecting", "open"}
  /\ connected' = FALSE
  /\ calls' = [calls EXCEPT ![c].state = "failing"]
  /\ UNCHANGED <<apiVars, cfgReconnect, cfgAttempts, token, socket, reconnectAttempt,
                 pingInterval, intervals, nCalls, nUser, nPings, userClosed,
                 sent, mdVars, wsVars>>

\* the 10 s timeout armed by call c; all these timers have the same delay,
\* so they fire in the order in which they were armed
OnTimeout(c) ==
  /\ c <= nCalls
  /\ calls[c].timeout
  /\ \A d \in 1..(c - 1) : ~calls[d].timeout
  /\ LET cs1 == [calls EXCEPT ![c].timeout = FALSE]
     IN calls' = IF ~connected
                 THEN Resolve(CloseSock(cs1, socket), c, "false")
                 ELSE cs1
  /\ UNCHANGED <<apiVars, cfgReconnect, cfgAttempts, token, socket, connected,
                 reconnectAttempt, pingInterval, intervals, nCalls, nUser,
                 nPings, userClosed, sent, mdVars, wsVars>>

\* the timer armed by scheduleReconnect in the close handler of call c
OnRetryTimer(c) ==
  /\ c <= nCalls
  /\ calls[c].retry
  /\ nCalls < MaxCalls
  /\ calls' = DoConnect([calls EXCEPT ![c].retry = FALSE], "timer")
  /\ socket' = nCalls + 1
  /\ nCalls' = nCalls + 1
  /\ UNCHANGED <<apiVars, cfgReconnect, cfgAttempts, token, connected, reconnectAttempt,
                 pingInterval, intervals, nUser, nPings, userClosed, sent,
                 mdVars, wsVars>>

\* one firing of a keepalive interval armed by startPing
OnPing(h) ==
  /\ h \in intervals
  /\ nPings < MaxPings
  /\ nPings' = nPings + 1
  /\ sent' = Send(sent, socket, connected, calls, <<Msg("2")>>)
  /\ UNCHANGED <<apiVars, cfgReconnect, cfgAttempts, token, socket, connected,
                 reconnectAttempt, pingInterval, intervals, calls, nCalls,
                 nUser, userClosed, mdVars, wsVars>>

\* SocketIOManager.disconnect
Disconnect ==
  /\ nCalls > 0
  /\ ~userClosed
  /\ intervals' = intervals \ {pingInterval}
  /\ pingInterval' = 0
  /\ IF socket # NoSocket
     THEN /\ calls' = CloseSock(calls, socket)
          /\ socket' = NoSocket
          /\ connected' = FALSE
     ELSE UNCHANGED <<calls, socket, connected>>
  /\ userClosed' = TRUE
  /\ UNCHANGED <<apiVars, cfgReconnect, cfgAttempts, token, reconnectAttempt, nCalls, nUser,
                 nPings, sent, mdVars, wsVars>>

\* ------------------------------------------------------------ QuotexClient
\* QuotexClient.connect() reaches ws.connect once the session or the login
\* gave it a token (a failed login returns success: false before it): the
\* calls of origin "user" are these ws.connect calls, and clientPc[c] is the
\* position of the connect() that made call c: awaiting ws.connect ("ws"),
\* in Bun.sleep(500) ("sleep"), returned ("done").
ResumeDue(c) ==
  /\ c <= nCalls
  /\ calls[c].origin = "user"
  /\ calls[c].resolved # "pending"
  /\ clientPc[c] = "ws"

\* a continuation of a resolved promise runs before any other event
NoResumeDue == \A c \in CallIds : ~ResumeDue(c)

\* connect() resumed after `await this.ws.connect(...)`, whatever it
\* resolved to: this.connected = true, then the await of Bun.sleep(500)
ClientResume(c) ==
  /\ ResumeDue(c)
  /\ clientConnected' = TRUE
  /\ clientPc' = [clientPc EXCEPT ![c] = "sleep"]
  /\ UNCHANGED <<extVars, connVars, mdVars, wsVars, getVars, ind>>

\* the sleep is over: connect() returns {success: true}
ClientReturn(c) ==
  /\ c <= nCalls
  /\ clientPc[c] = "sleep"
  /\ clientPc' = [clientPc EXCEPT ![c] = "done"]
  /\ UNCHANGED <<extVars, connVars, mdVars, wsVars, getVars, clientConnected, ind>>

\* QuotexClient.isConnected
ClientIsConnected == clientConnected /\ IsConnected


\* ------------------------------------------------------ MarketDataManager
\* A callback object: the caller's function fn itself (wrap = 0) or the
\* wrap-th closure created around fn by subscribeToPriceStream.
UserCb(fn)     == [fn |-> fn, wrap |-> 0]
WrapCb(fn, n)  == [fn |-> fn, wrap |-> n]
CandleKey(a, p) == <<"candles", a, p>>
PriceKey(a)     == <<"prices", a, 0>>

SeqToSet(q) == {q[i] : i \in 1..Len(q)}
RECURSIVE Without(_, _)
Without(q, x) ==
  IF q = <<>> THEN <<>>
  ELSE IF Head(q) = x THEN Without(Tail(q), x)
  ELSE <<Head(q)>> \o Without(Tail(q), x)

\* Map.get(key): index of the entry of key k, 0 when absent
KeyIndex(subs, k) ==
  IF \E i \in 1..Len(subs) : subs[i].key = k
  THEN CHOOSE i \in 1..Len(subs) : subs[i].key = k
  ELSE 0

\* if (!has(key)) set(key, new Set()); get(key).add(cb)
AddCb(subs, k, cb) ==
  LET i == KeyIndex(subs, k)
  IN IF i = 0 THEN Append(subs, [key |-> k, cbs |-> <<cb>>])
     ELSE IF cb \in SeqToSet(subs[i].cbs) THEN subs
     ELSE [subs EXCEPT ![i].cbs = Append(@, cb)]

\* get(key)?.delete(cb)
DelCb(subs, k, cb) ==
  LET i == KeyIndex(subs, k)
  IN IF i = 0 THEN subs ELSE [subs EXCEPT ![i].cbs = Without(@, cb)]

\* get(key)?.size === 0
SizeIsZero(subs, k) ==
  LET i == KeyIndex(subs, k) IN i # 0 /\ subs[i].cbs = <<>>

Registered(subs, k, cb) ==
  LET i == KeyIndex(subs, k) IN i # 0 /\ cb \in SeqToSet(subs[i].cbs)

FollowMsgs(a, p) == << <<"instruments/update", a, p>>, <<"depth/follow", a, 0>> >>
UnfollowMsg(a)   == <<"depth/unfollow", a, 0>>

\* subscribeToCandleStream(asset, period, callback)
SubscribeToCandleStream(a, p, fn) ==
  /\ Len(handles) < MaxSubs
  /\ sent' = Send(sent, socket, connected, calls, FollowMsgs(a, p))
  /\ subscriptions' = AddCb(subscriptions, CandleKey(a, p), UserCb(fn))
  /\ handles' = Append(handles, [kind |-> "candle", asset |-> a, period |-> p,
                                 fn |-> fn, n |-> 0])
  /\ invoked' = <<>>
  /\ lastOp' = <<"subscribe", Len(handles) + 1>>
  /\ UNCHANGED <<apiVars, cfgReconnect, cfgAttempts, token, socket, connected,
                 reconnectAttempt, pingInterval, intervals, calls, nCalls,
                 nUser, nPings, userClosed, candleStreams, histVars,
                 priceStreams,
                 nFrames, wsVars>>

\* subscribeToPriceStream(asset, period, callback): a candle-stream
\* subscription of a fresh wrapper closure (its cancel handle is dropped),
\* then the registration of callback under prices:asset
SubscribeToPriceStream(a, p, fn) ==
  /\ Len(handles) < MaxSubs
  /\ sent' = Send(sent, socket, connected, calls, FollowMsgs(a, p))
  /\ subscriptions' =
       AddCb(AddCb(subscriptions, CandleKey(a, p), WrapCb(fn, Len(handles) + 1)),
             PriceKey(a), UserCb(fn))
  /\ handles' = Append(handles, [kind |-> "price", asset |-> a, period |-> p,
                                 fn |-> fn, n |-> 0])
  /\ invoked' = <<>>
  /\ lastOp' = <<"subscribe", Len(handles) + 1>>
  /\ UNCHANGED <<apiVars, cfgReconnect, cfgAttempts, token, socket, connected,
                 reconnectAttempt, pingInterval, intervals, calls, nCalls,
                 nUser, nPings, userClosed, candleStreams, histVars,
                 priceStreams,
                 nFrames, wsVars>>

\* a call of the i-th cancel handle
CancelEffect(h, subs) ==
  IF h.kind = "candle"
  THEN DelCb(subs, CandleKey(h.asset, h.period), UserCb(h.fn))
  ELSE DelCb(subs, PriceKey(h.asset), UserCb(h.fn))

\* the frames a call of handle h sends, given the registry after its delete
CancelSends(h, subs1) ==
  IF h.kind = "candle" /\ SizeIsZero(subs1, CandleKey(h.asset, h.period))
  THEN <<UnfollowMsg(h.asset)>> ELSE <<>>

Cancel(i) ==
  /\ i \in 1..Len(handles)
  /\ handles[i].n < MaxCancelCalls
  /\ LET h == handles[i]
         subs1 == CancelEffect(h, subscriptions)
     IN /\ subscriptions' = subs1
        /\ sent' = Send(sent, socket, connected, calls, CancelSends(h, subs1))
  /\ handles' = [handles EXCEPT ![i].n = @ + 1]
  /\ invoked' = <<>>
  /\ lastOp' = <<"cancel", i>>
  /\ UNCHANGED <<apiVars, cfgReconnect, cfgAttempts, token, socket, connected,
                 reconnectAttempt, pingInterval, intervals, calls, nCalls,
                 nUser, nPings, userClosed, candleStreams, histVars,
                 priceStreams,
                 nFrames, wsVars>>

\* a candle; NoVolume stands for an undefined volume
NoVolume == -1
Candle(t, o, h, l, c, v) ==
  [time |-> t, open |-> o, high |-> h, low |-> l, close |-> c, volume |-> v]

\* --- the closure of subscribeIndicator
\* the callback object that subscribeIndicator registers as a candle-stream
\* subscriber
IndCb == [fn |-> "indicator", wrap |-> 0]

\* ind when no subscribeIndicator call has registered its closure: received
\* is the seed followed by the candles passed to the closure while active,
\* lastWindow the array passed to the last indicators.calculate call,
\* computed the number of these calls, calls the number of invocations of
\* the user callback, lateCalls those made after the cancel handle was called
NoIndicator ==
  [state |-> "none", asset |-> "", period |-> 0, isActive |-> FALSE,
   historicalCandles |-> <<>>, received |-> <<>>, lastWindow |-> <<>>,
   awaiting |-> FALSE, computed |-> 0, calls |-> 0, lateCalls |-> 0,
   cancels |-> 0]

\* the closure state when subscribeIndicator has registered the closure:
\* historicalCandles is the array its getCandles resolved to
Seeded(a, p, seed) ==
  [NoIndicator EXCEPT !.state = "active", !.asset = a, !.period = p,
                      !.isActive = TRUE, !.historicalCandles = seed,
                      !.received = seed]

\* historicalCandles.slice(-100) when longer than 100
LastN(q, n) == IF Len(q) > n THEN SubSeq(q, Len(q) - n + 1, Len(q)) ELSE q
KeepAll(q) == q
KeepLast(q) == LastN(q, WindowCap)

\* the closure called with newCandle, up to its await of
\* indicators.calculate (an async method: the rest runs as a microtask)
ClosureBody(st, newCandle) ==
  IF ~st.isActive THEN st
  ELSE LET w == KeepLast(Append(st.historicalCandles, newCandle))
       IN [st EXCEPT !.historicalCandles = w, !.lastWindow = w,
                     !.received = Append(@, newCandle),
                     !.computed = @ + 1, !.awaiting = TRUE]

\* the cancel handle of subscribeIndicator, as far as the closure state goes
CancelClosure(st) == [st EXCEPT !.isActive = FALSE, !.cancels = @ + 1]

\* the resumption of the closure after its await: callback(result)
Resume(st) ==
  IF st.awaiting
  THEN [st EXCEPT !.awaiting = FALSE, !.calls = @ + 1,
                  !.lateCalls = IF st.cancels > 0 THEN @ + 1 ELSE @]
  ELSE st

\* the effect on the closure state of the callbacks inv invoked one after
\* the other with candle; canc are the caller functions that call the
\* cancel handle of subscribeIndicator when they are invoked
RECURSIVE RunCallbacks(_, _, _, _)
RunCallbacks(inv, canc, st, candle) ==
  IF inv = <<>> THEN st
  ELSE RunCallbacks(Tail(inv), canc,
                    IF Head(inv) = IndCb.fn THEN ClosureBody(st, candle)
                    ELSE IF Head(inv) \in canc /\ st.state = "active"
                    THEN CancelClosure(st)
                    ELSE st,
                    candle)

\* a handler that invoked inv with candle, then the microtasks it left
Notify(st, inv, canc, candle) == Resume(RunCallbacks(inv, canc, st, candle))

\* --- inbound payloads
NoInput == [kind |-> "none", asset |-> "", period |-> 0, time |-> 0,
            price |-> 0, ticks |-> <<>>, before |-> 0]

\* the callbacks of the entries of subs selected by pick, in Map order and
\* Set order, each callback object once (the "notified" set)
RECURSIVE Dedup(_, _)
Dedup(q, seen) ==
  IF q = <<>> THEN <<>>
  ELSE IF Head(q) \in seen THEN Dedup(Tail(q), seen)
  ELSE <<Head(q)>> \o Dedup(Tail(q), seen \cup {Head(q)})

RECURSIVE Flatten(_, _, _)
Flatten(subs, kind, a) ==
  IF subs = <<>> THEN <<>>
  ELSE (IF Head(subs).key[1] = kind /\ Head(subs).key[2] = a
        THEN Head(subs).cbs ELSE <<>>) \o Flatten(Tail(subs), kind, a)

\* calling the callback objects of q one after the other until one throws;
\* thr is the set of caller functions that throw on this payload
RECURSIVE InvokeAll(_, _)
InvokeAll(q, thr) ==
  IF q = <<>> THEN [inv |-> <<>>, threw |-> FALSE]
  ELSE IF Head(q).fn \in thr THEN [inv |-> <<Head(q).fn>>, threw |-> TRUE]
  ELSE LET r == InvokeAll(Tail(q), thr)
       IN [inv |-> <<Head(q).fn>> \o r.inv, threw |-> r.threw]

\* push with the 100-entry cap of priceStreams
PushPrice(q, e) ==
  LET q1 == Append(q, e) IN IF Len(q1) > PriceStreamCap THEN Tail(q1) ELSE q1

FrameReady == nFrames < MaxFrames /\ \E c \in 1..nCalls : calls[c].state = "open"

\* frame 42["tick",[asset,time,price]] -> handleTickUpdate
OnTick(a, t, price, thr) ==
  /\ FrameReady
  /\ LET r == InvokeAll(Dedup(Flatten(subscriptions, "candles", a), {}), thr)
     IN /\ invoked' = r.inv
        /\ ind' = Notify(ind, r.inv, {}, Candle(t, price, price, price, price, 1))
        /\ priceStreams' =
             IF r.threw THEN priceStreams
             ELSE [priceStreams EXCEPT
                     ![a] = PushPrice(@, [price |-> price, time |-> t])]
  /\ nFrames' = nFrames + 1
  /\ lastOp' = <<"frame", 0>>
  /\ lastIn' = [NoInput EXCEPT !.kind = "tick", !.asset = a, !.time = t,
                                !.price = price,
                                !.before = Len(candleStreams[a])]
  /\ UNCHANGED <<extVars, getVars, clientVars, connVars, subscriptions, handles, candleStreams, nIngested,
                 maxDropped, wsVars>>

\* frame 42["price",{asset,price,time}] -> handlePriceUpdate
OnPrice(a, t, price, thr) ==
  /\ FrameReady
  /\ priceStreams' = [priceStreams EXCEPT
                        ![a] = PushPrice(@, [price |-> price, time |-> t])]
  /\ LET i == KeyIndex(subscriptions, PriceKey(a))
     IN invoked' = IF i = 0 THEN <<>>
                    ELSE InvokeAll(subscriptions[i].cbs, thr).inv
  /\ nFrames' = nFrames + 1
  /\ lastOp' = <<"frame", 0>>
  /\ UNCHANGED <<apiVars, connVars, subscriptions, handles, candleStreams, histVars,
                 wsVars>>


\* --- candle buffers
\* an entry [time, open, close, high, low] of a "candles" array
ParseEntry(e) == Candle(e[1], e[2], e[4], e[5], e[3], NoVolume)
\* candle && candle.time && !isNaN(candle.open) && !isNaN(candle.close)
Usable(c) == c.time # 0

\* shape A: the candles parsed from the entries, in payload order
ParseCandles(entries) ==
  SelectSeq([i \in 1..Len(entries) |-> ParseEntry(entries[i])], Usable)

\* shape B: Math.floor(timestamp / period) * period
BucketTime(timestamp, period) == (timestamp \div period) * period

BucketIndex(buckets, bt) ==
  IF \E i \in 1..Len(buckets) : buckets[i].time = bt
  THEN CHOOSE i \in 1..Len(buckets) : buckets[i].time = bt
  ELSE 0

Max2(x, y) == IF x >= y THEN x ELSE y
Min2(x, y) == IF x <= y THEN x ELSE y

\* the fold of the ticks [timestamp, price] into the buckets Map, in
\* payload order: the first tick of a bucket sets open, every later one
\* high, low and close
RECURSIVE FoldTicks(_, _, _)
FoldTicks(ticks, period, buckets) ==
  IF ticks = <<>> THEN buckets
  ELSE LET ts == Head(ticks)[1]
           price == Head(ticks)[2]
           bt == BucketTime(ts, period)
           i == BucketIndex(buckets, bt)
       IN FoldTicks(Tail(ticks), period,
            IF i = 0
            THEN Append(buckets, [time |-> bt, open |-> price, high |-> price,
                                  low |-> price, close |-> price, count |-> 1])
            ELSE [buckets EXCEPT
                    ![i].high = Max2(@, price), ![i].low = Min2(@, price),
                    ![i].close = price, ![i].count = @ + 1])

\* (a, b) => a.time - b.time, as the order of a stable sort
TimeLess(x, y) == x.time < y.time
SortByTime(q) == SortSeq(q, TimeLess)

\* shape B: the buckets sorted by time, each pushed as a candle
Aggregate(ticks, period) ==
  LET aggregated == SortByTime(FoldTicks(ticks, period, <<>>))
  IN [i \in 1..Len(aggregated) |->
        Candle(aggregated[i].time, aggregated[i].open, aggregated[i].high,
               aggregated[i].low, aggregated[i].close, aggregated[i].count)]

\* if (candles.length > 1000) candles.splice(0, candles.length - 1000)
Excess(q) == IF Len(q) > CandleCap THEN Len(q) - CandleCap ELSE 0
Truncate(q) == SubSeq(q, Excess(q) + 1, Len(q))

\* the greatest time among the candles q removes, given the one so far
DroppedMax(sofar, q) ==
  IF q = <<>> THEN sofar
  ELSE Max2(sofar, SortByTime(q)[Len(q)].time)

\* handleHistoryResponse: the candles that the payload adds to the buffer
\* (usable is false when the payload has neither a non-empty candles array
\* nor, with period > 0, a non-empty history array)
HistoryCandles(p, candlesArray, historyArray) ==
  IF candlesArray # <<>>
  THEN [usable |-> TRUE, new |-> ParseCandles(candlesArray)]
  ELSE IF historyArray # <<>> /\ p > 0
  THEN [usable |-> TRUE, new |-> Aggregate(historyArray, p)]
  ELSE [usable |-> FALSE, new |-> <<>>]

HistReady == nFrames < MaxHistFrames /\ \E c \in 1..nCalls : calls[c].state = "open"

\* a payload with a candles or history field on the channel 'candles' (or
\* 'instruments/update'): handleCandleUpdate -> handleHistoryResponse
OnHistory(a, p, candlesArray, historyArray, thr) ==
  /\ HistReady
  /\ LET r == HistoryCandles(p, candlesArray, historyArray)
         buf1 == candleStreams[a] \o r.new
         buf2 == SortByTime(Truncate(buf1))
         i == KeyIndex(subscriptions, CandleKey(a, p))
     IN /\ candleStreams' = [candleStreams EXCEPT ![a] = buf2]
        /\ nIngested' = [nIngested EXCEPT ![a] = @ + Len(r.new)]
        /\ maxDropped' = [maxDropped EXCEPT
                            ![a] = DroppedMax(@, SubSeq(buf1, 1, Excess(buf1)))]
        /\ invoked' = IF r.usable /\ buf2 # <<>> /\ i # 0
                      THEN InvokeAll(subscriptions[i].cbs, thr).inv
                      ELSE <<>>
        /\ ind' = IF r.usable /\ buf2 # <<>> /\ i # 0
                  THEN Notify(ind, InvokeAll(subscriptions[i].cbs, thr).inv, {},
                              buf2[Len(buf2)])
                  ELSE ind
        /\ lastIn' = [NoInput EXCEPT !.kind = IF r.usable THEN "history" ELSE "unusable",
                                     !.asset = a, !.period = p,
                                     !.ticks = IF candlesArray = <<>> THEN historyArray ELSE <<>>,
                                     !.before = Len(candleStreams[a])]
  /\ nFrames' = nFrames + 1
  /\ lastOp' = <<"frame", 0>>
  /\ UNCHANGED <<extVars, getVars, clientVars, connVars, subscriptions, handles,
                 priceStreams, wsVars>>

\* the cancel handle of subscribeIndicator: isActive = false, then the
\* cancel handle of the closure's candle-stream subscription
IndKey(st) == CandleKey(st.asset, st.period)
IndCancelSubs(st, subs) == DelCb(subs, IndKey(st), IndCb)
IndCancelSends(st, subs1) ==
  IF SizeIsZero(subs1, IndKey(st)) THEN <<UnfollowMsg(st.asset)>> ELSE <<>>

\* a single candle {asset, period, time, open, high, low, close} on the
\* channel 'candles': handleCandleUpdate; thr are the caller functions that
\* throw on it, canc those that call the cancel handle of subscribeIndicator
CandleUpdate(a, p, t, price, thr, canc) ==
  /\ HistReady
  /\ LET candle == Candle(t, price, price, price, price, NoVolume)
         buf1 == Append(candleStreams[a], candle)
         buf2 == IF Len(buf1) > CandleCap THEN Tail(buf1) ELSE buf1
         i == KeyIndex(subscriptions, CandleKey(a, p))
         exact == IF i = 0 THEN <<>> ELSE subscriptions[i].cbs
         inv == InvokeAll(Dedup(exact \o Flatten(subscriptions, "candles", a), {}),
                          thr).inv
         cancelled == ind.state = "active" /\ \E fn \in canc : fn \in SeqToSet(inv)
         subs1 == IF cancelled THEN IndCancelSubs(ind, subscriptions)
                  ELSE subscriptions
     IN /\ candleStreams' = [candleStreams EXCEPT ![a] = buf2]
        /\ nIngested' = [nIngested EXCEPT ![a] = @ + 1]
        /\ maxDropped' = [maxDropped EXCEPT
                            ![a] = IF Len(buf1) > CandleCap
                                   THEN Max2(@, buf1[1].time) ELSE @]
        /\ invoked' = inv
        /\ ind' = Notify(ind, inv, canc, candle)
        /\ subscriptions' = subs1
        /\ sent' = IF cancelled
                   THEN Send(sent, socket, connected, calls, IndCancelSends(ind, subs1))
                   ELSE sent
        /\ lastIn' = [NoInput EXCEPT !.kind = "candle", !.asset = a, !.period = p,
                                     !.time = t, !.price = price,
                                     !.before = Len(candleStreams[a])]
  /\ nFrames' = nFrames + 1
  /\ lastOp' = <<"frame", 0>>
  /\ UNCHANGED <<extVars, getVars, clientVars, cfgReconnect, cfgAttempts, token, socket,
                 connected, reconnectAttempt, pingInterval, intervals, calls,
                 nCalls, nUser, nPings, userClosed, handles, priceStreams,
                 wsVars>>

\* ... when no callback calls that cancel handle
OnCandle(a, p, t, price, thr) == CandleUpdate(a, p, t, price, thr, {})

\* the payloads explored
Entry(t) == <<t, 1, 2, 2, 1>>
Run(first, n) == [i \in 1..n |-> Entry(first + i - 1)]
CandleArrays ==
  { <<Entry(1)>>, <<Entry(2), Entry(1)>>, <<Entry(0)>>, Run(1, CandleCap) }
TickArrays ==
  { << <<1, 1>> >>, << <<1, 1>>, <<5, 2>> >>, << <<5, 2>>, <<1, 1>> >>,
    << <<61, 2>>, <<1, 1>>, <<5, 2>> >> }
HistoryPayloads ==
  {[candles |-> x, history |-> <<>>] : x \in CandleArrays}
    \cup {[candles |-> <<>>, history |-> y] : y \in TickArrays}
    \cup {[candles |-> <<>>, history |-> <<>>]}
SmallPayloads == {pl \in HistoryPayloads : Len(pl.candles) <= 2}
CandleTimes == {1, 2}

\* the caller functions registered for the candles of asset a
FnsOf(a) == {cb.fn : cb \in SeqToSet(Flatten(subscriptions, "candles", a))}

\* ------------------------------------------------------------ getCandles
\* An array object handed to the caller. `[...candles]` and `[]` make a new
\* array object, which holds val from then on (shared = FALSE); handing out
\* the buffer of the asset itself would give an object whose elements are
\* the buffer's at every moment (shared = TRUE).
SameArray(a, q) == [shared |-> TRUE, asset |-> a, val |-> <<>>]
Spread(a, q) == [shared |-> FALSE, asset |-> a, val |-> q]
Elements(r) == IF r.shared THEN candleStreams[r.asset] ELSE r.val

HistoryLoadMsg(a, p) == <<"history/load", a, p>>
NoCandlesError == "No candles available for indicator calculation"

\* what the caller of getCandles does with the array arr it resolves to:
\* getCandles itself returns it, calculateIndicator throws on an empty one
\* and otherwise returns indicators.calculate(candles, options)
FinishAlways(kind, arr) ==
  IF kind = "calculateIndicator" THEN [how |-> "throw", what |-> NoCandlesError]
  ELSE [how |-> "return", what |-> "candles"]
Finish(kind, arr) ==
  IF kind = "calculateIndicator"
  THEN IF Len(arr) = 0 THEN [how |-> "throw", what |-> NoCandlesError]
       ELSE [how |-> "return", what |-> "IndicatorManager.calculate"]
  ELSE [how |-> "return", what |-> "candles"]

Pending == [how |-> "pending", what |-> ""]

\* getCandles({asset, period}) up to its first await (Bun.sleep(200)),
\* called directly or by calculateIndicator
GetCandles(kind, a, p) ==
  /\ Len(gets) < MaxGets
  /\ candleStreams' = [candleStreams EXCEPT ![a] = <<>>]
  /\ sent' = Send(sent, socket, connected, calls, FollowMsgs(a, p))
  /\ gets' = Append(gets, [kind |-> kind, asset |-> a, period |-> p,
                           pc |-> "sleep", expired |-> FALSE,
                           dataAtDeadline |-> FALSE, res |-> 0,
                           out |-> Pending])
  /\ invoked' = <<>>
  /\ lastOp' = <<"getCandles", Len(gets) + 1>>
  /\ UNCHANGED <<extVars, cfgReconnect, cfgAttempts, token, socket, connected,
                 reconnectAttempt, pingInterval, intervals, calls, nCalls,
                 nUser, nPings, userClosed, subscriptions, handles, histVars,
                 priceStreams, nFrames, wsVars, returned, clientVars, ind>>

\* the 200 ms sleep of call k is over: history/load is sent and
\* waitForCandles starts (startTime = Date.now())
GetWake(k) ==
  /\ k \in 1..Len(gets)
  /\ gets[k].pc = "sleep"
  /\ sent' = Send(sent, socket, connected, calls,
                  <<HistoryLoadMsg(gets[k].asset, gets[k].period)>>)
  /\ gets' = [gets EXCEPT ![k].pc = "poll"]
  /\ UNCHANGED <<extVars, cfgReconnect, cfgAttempts, token, socket, connected,
                 reconnectAttempt, pingInterval, intervals, calls, nCalls,
                 nUser, nPings, userClosed, mdVars, wsVars, returned,
                 clientVars, ind>>

\* the clock passes startTime + timeout of call k (dataAtDeadline notes
\* whether the asset's buffer held candles at that moment)
Deadline(k) ==
  /\ k \in 1..Len(gets)
  /\ gets[k].pc = "poll"
  /\ ~gets[k].expired
  /\ gets' = [gets EXCEPT ![k].expired = TRUE,
                          ![k].dataAtDeadline = candleStreams[gets[k].asset] # <<>>]
  /\ UNCHANGED <<extVars, connVars, mdVars, wsVars, returned, clientVars, ind>>

\* the loop test of waitForCandles: while (Date.now() - startTime < timeout)
LoopForever(g) == TRUE
InTime(g) == ~g.expired

\* one iteration of the loop of waitForCandles in call k: the loop test,
\* then the look at the buffer, then Bun.sleep(100)
Poll(k) ==
  /\ k \in 1..Len(gets)
  /\ gets[k].pc = "poll"
  /\ LET g == gets[k]
         candles == candleStreams[g.asset]
         arr == IF ~InTime(g) THEN Spread(g.asset, <<>>)
                ELSE Spread(g.asset, candles)
     IN IF InTime(g) /\ candles = <<>>
        THEN UNCHANGED <<gets, returned, sent, subscriptions, ind>>
        ELSE /\ returned' = Append(returned, arr)
             /\ gets' = [gets EXCEPT ![k].pc = "done",
                                     ![k].res = Len(returned) + 1,
                                     ![k].out = Finish(g.kind, arr.val)]
             /\ IF g.kind = "subscribeIndicator"
                THEN /\ sent' = Send(sent, socket, connected, calls,
                                     FollowMsgs(g.asset, g.period))
                     /\ subscriptions' =
                          AddCb(subscriptions, CandleKey(g.asset, g.period), IndCb)
                     /\ ind' = Seeded(g.asset, g.period, arr.val)
                ELSE UNCHANGED <<sent, subscriptions, ind>>
  /\ UNCHANGED <<extVars, cfgReconnect, cfgAttempts, token, socket, connected,
                 reconnectAttempt, pingInterval, intervals, calls, nCalls,
                 nUser, nPings, userClosed, handles, candleStreams, histVars,
                 priceStreams, nFrames, invoked, lastOp, wsVars, clientVars>>

\* subscribeIndicator({asset, timeframe, callback}) up to the first await
\* of its getCandles; one such call is explored
SubscribeIndicator(a, p) ==
  /\ \A k \in 1..Len(gets) : gets[k].kind # "subscribeIndicator"
  /\ GetCandles("subscribeIndicator", a, p)

\* a call of the cancel handle returned by subscribeIndicator, made by the
\* caller outside of any callback
CancelIndicator ==
  /\ ind.state = "active"
  /\ ind.cancels < MaxCancelCalls
  /\ ind' = CancelClosure(ind)
  /\ LET subs1 == IndCancelSubs(ind, subscriptions)
     IN /\ subscriptions' = subs1
        /\ sent' = Send(sent, socket, connected, calls, IndCancelSends(ind, subs1))
  /\ invoked' = <<>>
  /\ lastOp' = <<"cancelIndicator", ind.cancels + 1>>
  /\ UNCHANGED <<extVars, cfgReconnect, cfgAttempts, token, socket, connected,
                 reconnectAttempt, pingInterval, intervals, calls, nCalls,
                 nUser, nPings, userClosed, handles, candleStreams, histVars,
                 priceStreams, nFrames, wsVars, getVars, clientVars>>

\* getRealtimeCandles(asset)
GetRealtimeCandles(a) ==
  /\ Len(returned) < MaxReturned
  /\ returned' = Append(returned, Spread(a, candleStreams[a]))
  /\ UNCHANGED <<extVars, connVars, mdVars, wsVars, gets, clientVars, ind>>

\* the caller changes the i-th array it was handed: push, splice(0, 1) or
\* sort with a comparator that puts later candles first
Reverse(q) == [i \in 1..Len(q) |-> q[Len(q) + 1 - i]]
Mutated(op, q) ==
  IF op = "push" THEN Append(q, Candle(0, 0, 0, 0, 0, NoVolume))
  ELSE IF op = "splice" THEN (IF q = <<>> THEN q ELSE Tail(q))
  ELSE Reverse(q)
MutationOps == {"push", "splice", "sort"}

MutateReturned(i, op) ==
  /\ i \in 1..Len(returned)
  /\ op = "push" => Len(Elements(returned[i])) < MaxArrayLen
  /\ IF returned[i].shared
     THEN /\ candleStreams' = [candleStreams EXCEPT
                                 ![returned[i].asset] = Mutated(op, @)]
          /\ UNCHANGED returned
     ELSE /\ returned' = [returned EXCEPT ![i].val = Mutated(op, @)]
          /\ UNCHANGED candleStreams
  /\ UNCHANGED <<extVars, connVars, subscriptions, handles, histVars, priceStreams,
                 nFrames, invoked, lastOp, wsVars, gets, clientVars, ind>>

\* ------------------------------------------- SocketIOManager subscribers
\* What one invocation of a handler does: return, throw, or call
\* subscribe / off for handler x on the channel being dispatched.
Behaviours ==
  {[op |-> "ok", x |-> ""], [op |-> "throw", x |-> ""]}
    \cup {[op |-> o, x |-> h] : o \in {"sub", "off"}, h \in Handlers}

Removed == "<removed>"
NoDispatch == [ch |-> "", start |-> {}, end |-> {}, inv |-> <<>>,
               threw |-> {}, after |-> FALSE]

\* Set.prototype.add / delete on the entry list of a Set that is being
\* iterated: add appends unless present, delete leaves a hole
SetAddFirst(list, x) == IF x \in SeqToSet(list) THEN list ELSE <<x>> \o list
SetAdd(list, x) == IF x \in SeqToSet(list) THEN list ELSE Append(list, x)
SetDelete(list, x) ==
  [j \in 1..Len(list) |-> IF list[j] = x THEN Removed ELSE list[j]]

\* the index forEach goes on with after the handler at index i has run with
\* behaviour b: the try/catch around handler(data) absorbs a throw
NextIndexNoCatch(list, i, b) == IF b.op = "throw" THEN Len(list) + 1 ELSE i + 1
NextIndex(list, i, b) == i + 1

\* handlers.forEach(handler => { try { handler(data) } catch ... }) from
\* index i on; beh gives the behaviour of each handler for this payload
RECURSIVE ForEach(_, _, _, _, _)
ForEach(list, i, beh, inv, threw) ==
  IF i > Len(list) THEN [list |-> list, inv |-> inv, threw |-> threw]
  ELSE IF list[i] = Removed THEN ForEach(list, i + 1, beh, inv, threw)
  ELSE LET h == list[i]
           b == beh[h]
           list1 == IF b.op = "sub" THEN SetAdd(list, b.x)
                    ELSE IF b.op = "off" THEN SetDelete(list, b.x)
                    ELSE list
       IN ForEach(list1, NextIndex(list1, i, b), beh, Append(inv, h),
                  IF b.op = "throw" THEN threw \cup {h} ELSE threw)

\* SocketIOManager.subscribe(channel, callback) called by the application
Subscribe(ch, h) ==
  /\ messageHandlers' = [messageHandlers EXCEPT ![ch] = SetAdd(@, h)]
  /\ UNCHANGED <<apiVars, connVars, mdVars, dispatch, codecVars>>

\* SocketIOManager.off(channel, callback), also the returned cancel handle
Off(ch, h) ==
  /\ messageHandlers' = [messageHandlers EXCEPT ![ch] = Without(@, h)]
  /\ UNCHANGED <<apiVars, connVars, mdVars, dispatch, codecVars>>

\* socket.onmessage with an event frame 42["ch",data]: handleRawMessage ->
\* handleMessage(ch, data)
OnMessage(ch, beh) ==
  /\ nFrames < MaxWsFrames
  /\ \E c \in 1..nCalls : calls[c].state = "open"
  /\ LET r == ForEach(messageHandlers[ch], 1, beh, <<>>, {})
     IN /\ messageHandlers' =
             [messageHandlers EXCEPT ![ch] = Without(r.list, Removed)]
        /\ dispatch' = [ch |-> ch, start |-> SeqToSet(messageHandlers[ch]),
                        end |-> SeqToSet(r.list) \ {Removed}, inv |-> r.inv, threw |-> r.threw,
                        after |-> dispatch.threw # {}]
  /\ nFrames' = nFrames + 1
  /\ UNCHANGED <<apiVars, connVars, subscriptions, handles, candleStreams, histVars,
                 priceStreams, invoked, lastOp, codecVars>>

\* ------------------------------------------------------ inbound decoding
\* JSON values as JSON.parse returns them: the type, and the number, the
\* string, the elements or the names of the defined fields
JVal(t, n, s, a, o) == [t |-> t, n |-> n, s |-> s, a |-> a, o |-> o]
JNum(n) == JVal("number", n, "", <<>>, {})
JStr(s) == JVal("string", 0, s, <<>>, {})
JArr(q) == JVal("array", 0, "", q, {})
JObj(fields) == JVal("object", 0, "", <<>>, fields)
JNull == JVal("null", 0, "", <<>>, {})
Undefined == JVal("undefined", 0, "", <<>>, {})

\* a raw frame: its leading characters, and the text after them, which is
\* either the JSON text of val (wf) or not JSON
EOT == "\\u0004"
RawFrame(pre, wf, val) == [pre |-> pre, wf |-> wf, val |-> val]
NoFrame == RawFrame("none", FALSE, Undefined)

IsArray(v) == v.t = "array"
\* typeof v === 'object' && v !== null
IsObject(v) == v.t \in {"array", "object"}
\* v.f !== undefined
Has(v, f) == f \in v.o
\* v[i - 1]
Elem(v, i) == IF i <= Len(v.a) THEN v.a[i] ELSE Undefined

\* handleMessage(ch, data)
Call(ch, data) == <<[ch |-> ch, data |-> data]>>

\* the raw-payload branch (first character code 4), after JSON.parse
RawPayloadRouteDual(parsed) ==
  IF parsed.t = "object" /\ (Has(parsed, "candles") \/ Has(parsed, "history"))
  THEN Call("candles", parsed) \o Call("message", parsed)
  ELSE IF IsArray(parsed) THEN Call("message", parsed)
  ELSE IF parsed.t = "object" THEN Call("message", parsed)
  ELSE <<>>
RawPayloadRoute(parsed) ==
  IF IsArray(parsed)
  THEN IF Len(parsed.a) > InstrumentsMin /\ IsArray(parsed.a[1])
       THEN Call("instruments", parsed)
       ELSE IF /\ Len(parsed.a) = 1
               /\ IsArray(parsed.a[1])
               /\ Len(parsed.a[1].a) >= 2
               /\ parsed.a[1].a[1].t = "string"
       THEN Call("tick", parsed.a[1])
       ELSE Call("message", parsed)
  ELSE IF parsed.t = "object"
  THEN IF Has(parsed, "candles") \/ Has(parsed, "history")
       THEN Call("candles", parsed)
       ELSE IF Has(parsed, "open") /\ Has(parsed, "close") /\ Has(parsed, "asset")
       THEN Call("candles", parsed)
       ELSE Call("message", parsed)
  ELSE IF parsed.t = "number" THEN Call("tick", parsed)
  ELSE <<>>

\* the same branch in the revision kept as SocketIOManager.ts
RawPayloadRouteTs(parsed) ==
  IF IsArray(parsed)
  THEN IF Len(parsed.a) > InstrumentsMin /\ IsArray(parsed.a[1])
       THEN Call("instruments", parsed)
       ELSE Call("message", parsed)
  ELSE IF parsed.t = "object" THEN Call("message", parsed)
  ELSE <<>>

Revisions == {"part_007", "SocketIOManager.ts"}

\* the branch of the frames that start with 42
EventRouteWhole(parsed) ==
  IF IsArray(parsed) /\ Len(parsed.a) >= 1
  THEN IF parsed.a[1].t = "string"
       THEN Call(parsed.a[1].s, parsed)
       ELSE IF Len(parsed.a) > InstrumentsMin THEN Call("instruments", parsed)
       ELSE Call("message", parsed)
  ELSE IF IsObject(parsed) THEN Call("message", parsed)
  ELSE <<>>
EventRoute(parsed) ==
  IF IsArray(parsed) /\ Len(parsed.a) >= 1
  THEN IF parsed.a[1].t = "string"
       THEN Call(parsed.a[1].s, Elem(parsed, 2))
       ELSE IF Len(parsed.a) > InstrumentsMin THEN Call("instruments", parsed)
       ELSE Call("message", parsed)
  ELSE IF IsObject(parsed) THEN Call("message", parsed)
  ELSE <<>>

\* the branch of the frames that start with { or [
JsonRoute(parsed) == IF IsObject(parsed) THEN Call("message", parsed) ELSE <<>>

\* const parsed = JSON.parse(jsonStr) followed by the routing of parsed,
\* which makes the calls made: JSON.parse throws a SyntaxError on text that
\* is not JSON, and the routing is not reached
ParseThen(f, made) ==
  IF f.wf THEN [calls |-> made, thrown |-> FALSE]
  ELSE [calls |-> <<>>, thrown |-> TRUE]

\* try { ... } catch (e) { log }: the handleMessage calls made before the
\* throw stay made
CatchRethrow(r) == r
Catch(r) == [calls |-> r.calls, thrown |-> FALSE]

None == [calls |-> <<>>, thrown |-> FALSE]

\* handleRawMessage(message) in revision rev: the handleMessage calls it
\* makes and whether an exception leaves it
HandleRawMessage(rev, f) ==
  Catch(
    IF f.pre \in {"0", "2", "3", "40", "41"} THEN None
    ELSE IF f.pre = EOT
    THEN IF rev = "part_007" THEN Catch(ParseThen(f, RawPayloadRoute(f.val)))
         ELSE Catch(ParseThen(f, RawPayloadRouteTs(f.val)))
    ELSE IF f.pre = "42" THEN Catch(ParseThen(f, EventRoute(f.val)))
    ELSE IF f.pre \in {"{", "["} THEN Catch(ParseThen(f, JsonRoute(f.val)))
    ELSE None)

\* the frames explored
LongArray(v) == JArr([i \in 1..(InstrumentsMin + 1) |-> v])
TickData == JArr(<<JStr("EURUSD"), JNum(1), JNum(2)>>)
Payloads ==
  { LongArray(JArr(<<>>)), LongArray(JNum(1)),
    JArr(<<TickData>>), JArr(<<JArr(<<JNum(1), JNum(2)>>)>>),
    JArr(<<JArr(<<JStr("EURUSD")>>)>>), JArr(<<>>),
    JObj({"candles", "asset"}), JObj({"history", "asset", "period"}),
    JObj({"open", "close", "asset"}), JObj({"open", "close"}),
    JNum(1), JStr("EURUSD"), JNull }

EventPayloads ==
  { JArr(<<JStr("tick"), TickData>>), JArr(<<JStr("tick")>>),
    JArr(<<JStr("orders/open"), JObj({"id"})>>),
    JArr(<<TickData>>), LongArray(JNum(1)), JArr(<<>>),
    JArr(<<JStr("message"), JObj({"id"})>>),
    JObj({"pending"}), JObj({}), JNum(1), JNull }
JsonPayloads == {JArr(<<TickData>>), JObj({"candles", "asset"}), JNum(1)}

FirstChar(v) == IF v.t = "array" THEN "[" ELSE IF v.t = "object" THEN "{" ELSE "other"

Frames ==
  {RawFrame(p, FALSE, Undefined) : p \in {"0", "2", "3", "40", "41", "other"}}
    \cup {RawFrame(p, FALSE, Undefined) : p \in {EOT, "42", "{", "["}}
    \cup {RawFrame(EOT, TRUE, v) : v \in Payloads}
    \cup {RawFrame("42", TRUE, v) : v \in EventPayloads}
    \cup {RawFrame(FirstChar(v), TRUE, v) : v \in JsonPayloads}

Malformed(f) == f.pre \in {EOT, "42", "{", "["} /\ ~f.wf

\* the handlers that a frame's handleMessage calls can reach
Reached(made) ==
  IF made # <<>> /\ made[1].ch \in Channels
  THEN SeqToSet(messageHandlers[made[1].ch]) ELSE {}

\* socket.onmessage: handleRawMessage(event.data), with the invocation of
\* the handlers of the channel it routes to
OnRawMessage(rev, f, beh) ==
  /\ nFrames < MaxWsFrames
  /\ \E c \in 1..nCalls : calls[c].state = "open"
  /\ LET r == HandleRawMessage(rev, f)
     IN /\ routed' = r.calls
        /\ escaped' = r.thrown
        /\ IF Reached(r.calls) # {}
           THEN LET ch == r.calls[1].ch
                    d == ForEach(messageHandlers[ch], 1, beh, <<>>, {})
                IN /\ messageHandlers' =
                        [messageHandlers EXCEPT ![ch] = Without(d.list, Removed)]
                   /\ dispatch' =
                        [ch |-> ch, start |-> SeqToSet(messageHandlers[ch]),
                         end |-> SeqToSet(d.list) \ {Removed},
                         inv |-> d.inv, threw |-> d.threw,
                         after |-> dispatch.threw # {}]
           ELSE /\ UNCHANGED messageHandlers
                /\ dispatch' =
                     [NoDispatch EXCEPT
                        !.ch = IF r.calls = <<>> THEN "" ELSE r.calls[1].ch,
                        !.after = dispatch.threw # {}]
  /\ sent' = IF f.pre = "2"
             THEN Send(sent, socket, connected, calls, <<Msg("3")>>)
             ELSE sent
  /\ raw' = f
  /\ afterBad' = Malformed(raw)
  /\ nFrames' = nFrames + 1
  /\ UNCHANGED <<apiVars, cfgReconnect, cfgAttempts, token, socket, connected,
                 reconnectAttempt, pingInterval, intervals, calls, nCalls,
                 nUser, nPings, userClosed, subscriptions, handles,
                 candleStreams, histVars, priceStreams, invoked, lastOp>>

\* -------------------------------------------------------- WebSocketManager
\* The manager over Bun's native WebSocket.  socks[c] is the socket made by
\* the c-th connect() that got past its guard: its ready state, whether its
\* 10 s timeout is armed, what its promise resolved to, who called connect.
\* timer tells whether the setTimeout of scheduleReconnect is pending;
\* dropped and userClosed record that an open socket was closed by the
\* transport and that disconnect() was called.
NoSock == [state |-> "none", origin |-> "none", timeout |-> FALSE,
           resolved |-> "pending", everOpen |-> FALSE]

NoWsm ==
  [maxAttempts |-> DefaultReconnectAttempts, reconnect |-> TRUE,
   ws |-> NoSocket, connected |-> FALSE, connecting |-> FALSE,
   reconnecting |-> FALSE, error |-> FALSE, reconnectAttempts |-> 0,
   timer |-> FALSE, socks |-> [c \in CallIds |-> NoSock], nSocks |-> 0,
   nUser |-> 0, scheduled |-> 0, dropped |-> FALSE, userClosed |-> FALSE]

WsmResolve(socks, c, v) ==
  IF socks[c].resolved = "pending" THEN [socks EXCEPT ![c].resolved = v] ELSE socks

\* WebSocket.close() on the socket held
WsmCloseSock(socks, c) ==
  IF c # NoSocket /\ socks[c].state \in {"connecting", "open"}
  THEN [socks EXCEPT ![c].state = "closing"] ELSE socks

\* connect(): returns state.connected when connected or connecting, else
\* creates the socket, attaches the handlers and arms the 10 s timeout
WsmDoConnect(w, origin) ==
  IF w.connected \/ w.connecting THEN w
  ELSE [w EXCEPT !.connecting = TRUE,
                 !.ws = w.nSocks + 1,
                 !.nSocks = w.nSocks + 1,
                 !.socks[w.nSocks + 1] =
                    [state |-> "connecting", origin |-> origin, timeout |-> TRUE,
                     resolved |-> "pending", everOpen |-> FALSE]]

\* connect() called by the owner
WsmConnect ==
  /\ wsm.nUser < MaxUserConnects
  /\ wsm.nSocks < MaxCalls
  /\ wsm' = [WsmDoConnect(wsm, "user") EXCEPT !.nUser = wsm.nUser + 1,
                                              !.userClosed = FALSE]
  /\ UNCHANGED <<connVars, mdVars, wsVars, getVars, clientVars, ind, calc>>

\* ws.onopen of socket c
WsmOnOpen(c) ==
  /\ c <= wsm.nSocks
  /\ wsm.socks[c].state = "connecting"
  /\ wsm' = [wsm EXCEPT !.connected = TRUE, !.connecting = FALSE,
                        !.reconnecting = FALSE, !.reconnectAttempts = 0,
                        !.socks = WsmResolve([wsm.socks EXCEPT ![c].state = "open",
                                                              ![c].everOpen = TRUE],
                                             c, "true")]
  /\ UNCHANGED <<connVars, mdVars, wsVars, getVars, clientVars, ind, calc>>

\* ws.onerror of socket c: the transport failed, its close event follows
WsmOnError(c) ==
  /\ c <= wsm.nSocks
  /\ wsm.socks[c].state \in {"connecting", "open"}
  /\ wsm' = [wsm EXCEPT !.error = TRUE, !.socks[c].state = "failing"]
  /\ UNCHANGED <<connVars, mdVars, wsVars, getVars, clientVars, ind, calc>>

\* the test of ws.onclose before scheduleReconnect
WsmMaySchedule(w, wasConnecting) ==
  w.reconnect /\ ~w.reconnecting /\ ~wasConnecting

\* scheduleReconnect()
WsmScheduleReconnect(w) ==
  IF w.reconnectAttempts >= w.maxAttempts
  THEN [w EXCEPT !.reconnecting = FALSE]
  ELSE [w EXCEPT !.reconnecting = TRUE,
                 !.reconnectAttempts = w.reconnectAttempts + 1,
                 !.timer = TRUE,
                 !.scheduled = w.scheduled + 1]

\* ws.onclose of socket c
WsmOnClose(c) ==
  /\ c <= wsm.nSocks
  /\ wsm.socks[c].state \in {"connecting", "open", "closing", "failing"}
  /\ LET wasConnecting == wsm.connecting
         w1 == [wsm EXCEPT !.connected = FALSE, !.connecting = FALSE,
                           !.socks[c].state = "closed",
                           !.dropped = @ \/ (wsm.socks[c].state \in {"open", "failing"}
                                              /\ wsm.socks[c].everOpen)]
         w2 == IF WsmMaySchedule(w1, wasConnecting)
               THEN WsmScheduleReconnect(w1) ELSE w1
     IN wsm' = IF wasConnecting
               THEN [w2 EXCEPT !.socks = WsmResolve(w2.socks, c, "false")]
               ELSE w2
  /\ UNCHANGED <<connVars, mdVars, wsVars, getVars, clientVars, ind, calc>>

\* the 10 s timeout armed by the connect() that made socket c
WsmOnTimeout(c) ==
  /\ c <= wsm.nSocks
  /\ wsm.socks[c].timeout
  /\ \A d \in 1..(c - 1) : ~wsm.socks[d].timeout
  /\ LET s1 == [wsm.socks EXCEPT ![c].timeout = FALSE]
     IN wsm' = IF wsm.connecting
               THEN [wsm EXCEPT !.connecting = FALSE,
                                !.socks = WsmResolve(WsmCloseSock(s1, wsm.ws), c, "false")]
               ELSE [wsm EXCEPT !.socks = s1]
  /\ UNCHANGED <<connVars, mdVars, wsVars, getVars, clientVars, ind, calc>>

\* the timer of scheduleReconnect fires: this.connect()
WsmOnRetryTimer ==
  /\ wsm.timer
  /\ wsm.nSocks < MaxCalls
  /\ wsm' = [WsmDoConnect(wsm, "timer") EXCEPT !.timer = FALSE]
  /\ UNCHANGED <<connVars, mdVars, wsVars, getVars, clientVars, ind, calc>>

\* disconnect()
WsmDisconnect ==
  /\ wsm.nSocks > 0
  /\ ~wsm.userClosed
  /\ wsm' = [wsm EXCEPT !.timer = FALSE,
                        !.socks = WsmCloseSock(wsm.socks, wsm.ws),
                        !.ws = NoSocket,
                        !.connected = FALSE, !.connecting = FALSE,
                        !.reconnecting = FALSE, !.error = FALSE,
                        !.userClosed = TRUE]
  /\ UNCHANGED <<connVars, mdVars, wsVars, getVars, clientVars, ind, calc>>

\* ----------------------------------------------------------- indicators
\* A JavaScript number is held as the exact fraction n/d in lowest terms,
\* d > 0; d = 0 holds the values that are not finite: NaN (n = 0),
\* Infinity (n = 1) and -Infinity (n = -1).  The sign of a zero is not
\* kept: every divisor of the calculators is a sum of non-negative terms.
RECURSIVE Gcd(_, _)
Gcd(a, b) == IF b = 0 THEN a ELSE Gcd(b, a % b)
Abs(x) == IF x < 0 THEN -x ELSE x
Sign(x) == IF x > 0 THEN 1 ELSE IF x < 0 THEN -1 ELSE 0
Num(n, d) ==
  IF d = 0 THEN [n |-> Sign(n), d |-> 0]
  ELSE LET g == Gcd(Abs(n), d) IN [n |-> n \div g, d |-> d \div g]
Whole(i) == [n |-> i, d |-> 1]
NaN == [n |-> 0, d |-> 0]
IsNaN(x) == x = NaN
Add(x, y) ==
  IF IsNaN(x) \/ IsNaN(y) THEN NaN
  ELSE IF x.d = 0 /\ y.d = 0 THEN (IF x.n = y.n THEN x ELSE NaN)
  ELSE IF x.d = 0 THEN x
  ELSE IF y.d = 0 THEN y
  ELSE Num(x.n * y.d + y.n * x.d, x.d * y.d)
Neg(x) == [n |-> -x.n, d |-> x.d]
Sub(x, y) == Add(x, Neg(y))
Mul(x, y) ==
  IF IsNaN(x) \/ IsNaN(y) THEN NaN
  ELSE IF x.d = 0 \/ y.d = 0 THEN Num(Sign(x.n) * Sign(y.n), 0)
  ELSE Num(x.n * y.n, x.d * y.d)
Div(x, y) ==
  IF IsNaN(x) \/ IsNaN(y) THEN NaN
  ELSE IF y.d = 0 THEN (IF x.d = 0 THEN NaN ELSE Whole(0))
  ELSE IF y.n = 0 THEN Num(x.n, 0)
  ELSE IF x.d = 0 THEN Num(x.n * Sign(y.n), 0)
  ELSE Num(x.n * y.d * Sign(y.n), x.d * Abs(y.n))
\* x < y; false when either side is NaN
Less(x, y) ==
  /\ ~IsNaN(x) /\ ~IsNaN(y)
  /\ IF x.d = 0 \/ y.d = 0
       THEN (IF x.d = 0 /\ y.d = 0 THEN x.n < y.n
             ELSE IF x.d = 0 THEN x.n < 0 ELSE y.n > 0)
       ELSE x.n * y.d < y.n * x.d
AbsNum(x) == [n |-> Abs(x.n), d |-> x.d]
\* Math.max and Math.min of two numbers
MaxNum(x, y) == IF IsNaN(x) \/ IsNaN(y) THEN NaN ELSE IF Less(x, y) THEN y ELSE x
MinNum(x, y) == IF IsNaN(x) \/ IsNaN(y) THEN NaN ELSE IF Less(y, x) THEN y ELSE x
\* Math.max(...s) and Math.min(...s) of a non-empty array
RECURSIVE MaxOf(_)
MaxOf(s) == IF Len(s) = 1 THEN s[1] ELSE MaxNum(s[1], MaxOf(Tail(s)))
RECURSIVE MinOf(_)
MinOf(s) == IF Len(s) = 1 THEN s[1] ELSE MinNum(s[1], MinOf(Tail(s)))
\* s.reduce((a, b) => a + b, 0)
RECURSIVE Sum(_)
Sum(s) == IF s = <<>> THEN Whole(0) ELSE Add(s[1], Sum(Tail(s)))
\* Math.round(v * 100) / 100; Math.round(x) is floor(x + 1/2)
Round2(v) ==
  IF v.d = 0 THEN v ELSE Num((200 * v.n + v.d) \div (2 * v.d), 100)
roundValues(arr) == [i \in 1..Len(arr) |-> Round2(arr[i])]
\* the values JavaScript takes for false in `x || y`
Falsy(x) == IsNaN(x) \/ x = Whole(0)
\* arr[arr.length - 1] || dflt
LastOr(arr, dflt) ==
  IF arr = <<>> \/ Falsy(arr[Len(arr)]) THEN dflt ELSE arr[Len(arr)]
\* arr[arr.length - 1] ?? dflt
LastOrNullish(arr, dflt) == IF arr = <<>> THEN dflt ELSE arr[Len(arr)]
\* arr.slice(from, to) and arr.slice(from), indices counted from 0; a
\* negative from counts from the end
SliceTo(arr, from, to) ==
  LET n == Len(arr)
      a == IF from < 0 THEN (IF n + from < 0 THEN 0 ELSE n + from)
           ELSE IF from > n THEN n ELSE from
      b == IF to > n THEN n ELSE to
  IN  SubSeq(arr, a + 1, b)
Slice(arr, from) == SliceTo(arr, from, Len(arr))

\* candles.map(c => c.close) and its siblings
Closes(candles) == [i \in 1..Len(candles) |-> Whole(candles[i].close)]
Highs(candles)  == [i \in 1..Len(candles) |-> Whole(candles[i].high)]
Lows(candles)   == [i \in 1..Len(candles) |-> Whole(candles[i].low)]
Timestamps(candles) == [i \in 1..Len(candles) |-> candles[i].time]

\* --- RSI.ts
\* computeRSI without its avgLoss === 0 branch
computeRSIUnguarded(prices, period) ==
  IF Len(prices) < 2 THEN Whole(50)
  ELSE LET diff(i)  == Sub(prices[i + 1], prices[i])
           up(i)    == ~Less(diff(i), Whole(0))
           gains    == Sum([i \in 1..Len(prices) - 1 |->
                              IF up(i) THEN diff(i) ELSE Whole(0)])
           losses   == Sum([i \in 1..Len(prices) - 1 |->
                              IF up(i) THEN Whole(0) ELSE Neg(diff(i))])
           avgGain  == Div(gains, Whole(period))
           avgLoss  == Div(losses, Whole(period))
           rs       == Div(avgGain, avgLoss)
       IN  Sub(Whole(100), Div(Whole(100), Add(Whole(1), rs)))
computeRSI(prices, period) ==
  IF Len(prices) < 2 THEN Whole(50)
  ELSE LET diff(i)  == Sub(prices[i + 1], prices[i])
           up(i)    == ~Less(diff(i), Whole(0))
           gains    == Sum([i \in 1..Len(prices) - 1 |->
                              IF up(i) THEN diff(i) ELSE Whole(0)])
           losses   == Sum([i \in 1..Len(prices) - 1 |->
                              IF up(i) THEN Whole(0) ELSE Neg(diff(i))])
           avgGain  == Div(gains, Whole(period))
           avgLoss  == Div(losses, Whole(period))
           rs       == Div(avgGain, avgLoss)
       IN  IF avgLoss = Whole(0) THEN Whole(100)
           ELSE Sub(Whole(100), Div(Whole(100), Add(Whole(1), rs)))
calculateRSI(candles, period) ==
  LET closes     == Closes(candles)
      timestamps == Timestamps(candles)
      n          == Len(closes)
      rsiValues  == [j \in 1..(IF n > period THEN n - period ELSE 0) |->
                       computeRSI(SliceTo(closes, j - 1, j + period), period)]
  IN  [series      |-> [rsi |-> rsiValues],
       current     |-> [rsi |-> LastOr(rsiValues, Whole(50))],
       timestamps  |-> Slice(timestamps, period),
       historySize |-> Len(rsiValues)]

\* --- BollingerBands.ts
\* Math.sqrt(x) of a finite x >= 0: the exact root when x is the square of
\* a fraction, and otherwise the irrational number written [root |-> x]
IntRoot(n) == CHOOSE r \in 0..n : r * r <= n /\ n < (r + 1) * (r + 1)
IsSquare(n) == IntRoot(n) * IntRoot(n) = n
Sqrt(x) ==
  IF IsSquare(x.n) /\ IsSquare(x.d) THEN Num(IntRoot(x.n), IntRoot(x.d))
  ELSE [root |-> x]
calculateStdDev(values, mean) ==
  LET squareDiffs == [i \in 1..Len(values) |->
                        Mul(Sub(values[i], mean), Sub(values[i], mean))]
      avgSquareDiff == Div(Sum(squareDiffs), Whole(Len(values)))
  IN  Sqrt(avgSquareDiff)
\* sma + k * std; with an irrational std the sum is irrational, never 0,
\* and is written [mid |-> sma, k |-> k, root |-> the square of std]
Band(sma, k, std) ==
  IF "root" \in DOMAIN std THEN [mid |-> sma, k |-> k, root |-> std.root]
  ELSE Add(sma, Mul(Whole(k), std))
calculateBollingerBands(candles, period, stdDev) ==
  LET closes     == Closes(candles)
      timestamps == Timestamps(candles)
      n          == Len(closes)
      count      == IF n >= period THEN n - period + 1 ELSE 0
      slice(j)   == SliceTo(closes, j - 1, j - 1 + period)
      sma(j)     == Div(Sum(slice(j)), Whole(period))
      std(j)     == calculateStdDev(slice(j), sma(j))
      upper      == [j \in 1..count |-> Band(sma(j), stdDev, std(j))]
      middle     == [j \in 1..count |-> sma(j)]
      lower      == [j \in 1..count |-> Band(sma(j), -stdDev, std(j))]
  IN  [series      |-> [upper |-> upper, middle |-> middle, lower |-> lower],
       current     |-> [upper  |-> LastOr(upper, Whole(0)),
                        middle |-> LastOr(middle, Whole(0)),
                        lower  |-> LastOr(lower, Whole(0))],
       timestamps  |-> Slice(timestamps, period - 1),
       historySize |-> Len(middle)]

\* --- MACD.ts
\* the calculateEMA of MACD.ts: emaArray after its loop
RECURSIVE macdEMALoop(_, _, _)
macdEMALoop(prices, k, emaArray) ==
  LET i == Len(emaArray) + 1 IN
  IF i > Len(prices) THEN emaArray
  ELSE macdEMALoop(prices, k,
         Append(emaArray, Add(Mul(prices[i], k),
                              Mul(emaArray[i - 1], Sub(Whole(1), k)))))
macdEMA(prices, period) ==
  IF prices = <<>> THEN <<>>
  ELSE macdEMALoop(prices, Div(Whole(2), Whole(period + 1)), <<prices[1]>>)
calculateMACD(candles, fastPeriod, slowPeriod, signalPeriod) ==
  LET closes     == Closes(candles)
      timestamps == Timestamps(candles)
      emaFast    == macdEMA(closes, fastPeriod)
      emaSlow    == macdEMA(closes, slowPeriod)
      minLength  == IF Len(emaFast) < Len(emaSlow) THEN Len(emaFast)
                    ELSE Len(emaSlow)
      macdLine   == [i \in 1..minLength |-> Sub(emaFast[i], emaSlow[i])]
      signalLine == macdEMA(macdLine, signalPeriod)
      histogram  == [i \in 1..Len(signalLine) |->
                       Sub(macdLine[i + (Len(macdLine) - Len(signalLine))],
                           signalLine[i])]
  IN  IF closes = <<>>
        THEN [series      |-> [macd |-> <<>>, signal |-> <<>>,
                               histogram |-> <<>>],
              current     |-> [macd |-> Whole(0), signal |-> Whole(0),
                               histogram |-> Whole(0)],
              timestamps  |-> <<>>,
              historySize |-> 0]
        ELSE [series      |-> [macd |-> macdLine, signal |-> signalLine,
                               histogram |-> histogram],
              current     |-> [macd      |-> LastOrNullish(macdLine, Whole(0)),
                               signal    |-> LastOrNullish(signalLine, Whole(0)),
                               histogram |-> LastOrNullish(histogram, Whole(0))],
              timestamps  |-> Slice(timestamps, -Len(macdLine)),
              historySize |-> Len(macdLine)]

\* --- calculators/index.ts
calculateSMA(values, period) ==
  [j \in 1..(IF Len(values) >= period THEN Len(values) - period + 1 ELSE 0) |->
     Div(Sum(SliceTo(values, j - 1, j - 1 + period)), Whole(period))]

EmaError == "price or prevEma is undefined"
\* the loop of calculateEMA from the array built so far: the finished array,
\* or the error thrown on a price or a previous value that is 0
RECURSIVE calculateEMALoop(_, _, _)
calculateEMALoop(values, k, ema) ==
  LET i == Len(ema) + 1 IN
  IF i > Len(values) THEN [how |-> "return", ema |-> ema]
  ELSE IF Falsy(values[i]) \/ Falsy(ema[i - 1])
    THEN [how |-> "throw", what |-> EmaError]
    ELSE calculateEMALoop(values, k,
           Append(ema, Add(Mul(values[i], k),
                           Mul(ema[i - 1], Sub(Whole(1), k)))))
calculateEMA(values, period) ==
  calculateEMALoop(values, Div(Whole(2), Whole(period + 1)),
                   <<IF values = <<>> THEN Whole(0) ELSE values[1]>>)

\* hiPrev and liPrev are read at index i, as in the source
calculateATR(high, low, close, period) ==
  LET tr == [i \in 1..(IF Len(high) > 1 THEN Len(high) - 1 ELSE 0) |->
               MaxOf(<<Sub(high[i + 1], low[i + 1]),
                       AbsNum(Sub(high[i + 1], close[i])),
                       AbsNum(Sub(low[i + 1], close[i]))>>)]
  IN  calculateSMA(tr, period)

calculateStochastic(high, low, close, kPeriod, dPeriod) ==
  LET count == IF Len(close) >= kPeriod THEN Len(close) - kPeriod + 1 ELSE 0
      highestHigh(j) == MaxOf(SliceTo(high, j - 1, j - 1 + kPeriod))
      lowestLow(j)   == MinOf(SliceTo(low, j - 1, j - 1 + kPeriod))
      c(j)           == close[j - 1 + kPeriod]
      k == [j \in 1..count |->
              IF highestHigh(j) = lowestLow(j) THEN Whole(50)
              ELSE Mul(Div(Sub(c(j), lowestLow(j)),
                           Sub(highestHigh(j), lowestLow(j))), Whole(100))]
  IN  [k |-> k, d |-> calculateSMA(k, dPeriod)]

\* --- ADX.ts
\* the j-th smoothed average of s: the sum of the first period entries
\* over period, then (previous * (period - 1) + s[i]) / period
RECURSIVE Smoothed(_, _, _)
Smoothed(s, period, j) ==
  IF j = 1 THEN Div(Sum(SliceTo(s, 0, period)), Whole(period))
  ELSE Div(Add(Mul(Smoothed(s, period, j - 1), Whole(period - 1)),
               s[period + j - 1]), Whole(period))
calculateADX(highs, lows, closes, period) ==
  IF Len(highs) < period + 1
    THEN [adx |-> <<>>, plusDI |-> <<>>, minusDI |-> <<>>,
          current |-> [adx |-> Whole(0), plusDI |-> Whole(0), minusDI |-> Whole(0)]]
    ELSE
      LET n == Len(highs)
          tr == [i \in 1..n - 1 |->
                   MaxOf(<<Sub(highs[i + 1], lows[i + 1]),
                           AbsNum(Sub(highs[i + 1], closes[i])),
                           AbsNum(Sub(lows[i + 1], closes[i]))>>)]
          plusDM1(i)  == Sub(highs[i + 1], highs[i])
          minusDM1(i) == Sub(lows[i], lows[i + 1])
          plusDM  == [i \in 1..n - 1 |->
                        IF Less(minusDM1(i), plusDM1(i)) /\ Less(Whole(0), plusDM1(i))
                          THEN plusDM1(i) ELSE Whole(0)]
          minusDM == [i \in 1..n - 1 |->
                        IF Less(plusDM1(i), minusDM1(i)) /\ Less(Whole(0), minusDM1(i))
                          THEN minusDM1(i) ELSE Whole(0)]
          count == n - period
          plusDIValues  == [j \in 1..count |->
                              Div(Mul(Smoothed(plusDM, period, j), Whole(100)),
                                  Smoothed(tr, period, j))]
          minusDIValues == [j \in 1..count |->
                              Div(Mul(Smoothed(minusDM, period, j), Whole(100)),
                                  Smoothed(tr, period, j))]
          dxValues == [j \in 1..count |->
                         Mul(Div(AbsNum(Sub(plusDIValues[j], minusDIValues[j])),
                                 Add(plusDIValues[j], minusDIValues[j])),
                             Whole(100))]
          adxValues == [j \in 1..(IF count > period THEN count - period + 1 ELSE 1) |->
                          IF j = 1 THEN Smoothed(dxValues, period, 1)
                          ELSE Round2(Smoothed(dxValues, period, j))]
      IN  [adx     |-> adxValues,
           plusDI  |-> roundValues(plusDIValues),
           minusDI |-> roundValues(minusDIValues),
           current |-> [adx     |-> LastOr(adxValues, Whole(0)),
                        plusDI  |-> LastOr(plusDIValues, Whole(0)),
                        minusDI |-> LastOr(minusDIValues, Whole(0))]]

\* --- Ichimoku
donchian(highs, lows, period) ==
  [j \in 1..(IF Len(highs) >= period THEN Len(highs) - period + 1 ELSE 0) |->
     Div(Add(MaxOf(SliceTo(highs, j - 1, j - 1 + period)),
             MinOf(SliceTo(lows, j - 1, j - 1 + period))), Whole(2))]
calculateIchimoku(highs, lows, tenkanPeriod, kijunPeriod, senkouBPeriod) ==
  IF Len(highs) < senkouBPeriod
    THEN [tenkan |-> <<>>, kijun |-> <<>>, senkouA |-> <<>>,
          senkouB |-> <<>>, chikou |-> <<>>,
          current |-> [tenkan |-> Whole(0), kijun |-> Whole(0),
                       senkouA |-> Whole(0), senkouB |-> Whole(0),
                       chikou |-> Whole(0)]]
    ELSE
      LET tenkan  == donchian(highs, lows, tenkanPeriod)
          kijun   == donchian(highs, lows, kijunPeriod)
          senkouB == donchian(highs, lows, senkouBPeriod)
          minLength == IF Len(tenkan) < Len(kijun) THEN Len(tenkan)
                       ELSE Len(kijun)
          senkouA == [i \in 1..minLength |->
                        Div(Add(tenkan[i], kijun[i]), Whole(2))]
          chikou  == Slice(lows, kijunPeriod)
      IN  [tenkan  |-> roundValues(tenkan),
           kijun   |-> roundValues(kijun),
           senkouA |-> roundValues(senkouA),
           senkouB |-> roundValues(senkouB),
           chikou  |-> roundValues(chikou),
           current |-> [tenkan  |-> LastOr(tenkan, Whole(0)),
                        kijun   |-> LastOr(kijun, Whole(0)),
                        senkouA |-> LastOr(senkouA, Whole(0)),
                        senkouB |-> LastOr(senkouB, Whole(0)),
                        chikou  |-> LastOr(chikou, Whole(0))]]

\* --- IndicatorManager.ts
Returned(result) == [how |-> "return", result |-> result]
ManagerSMA(candles, period) ==
  LET sma == calculateSMA(Closes(candles), period) IN
  Returned([series      |-> [sma |-> sma],
            current     |-> [sma |-> LastOr(sma, Whole(0))],
            timestamps  |-> Slice(Timestamps(candles), period - 1),
            historySize |-> Len(sma)])
ManagerEMA(candles, period) ==
  LET out == calculateEMA(Closes(candles), period) IN
  IF out.how = "throw" THEN out
  ELSE Returned([series      |-> [ema |-> out.ema],
                 current     |-> [ema |-> LastOr(out.ema, Whole(0))],
                 timestamps  |-> Timestamps(candles),
                 historySize |-> Len(out.ema)])
ManagerATR(candles, period) ==
  LET atr == calculateATR(Highs(candles), Lows(candles), Closes(candles),
                          period) IN
  Returned([series      |-> [atr |-> atr],
            current     |-> [atr |-> LastOr(atr, Whole(0))],
            timestamps  |-> Slice(Timestamps(candles), period),
            historySize |-> Len(atr)])
ManagerStochastic(candles, kPeriod, dPeriod) ==
  LET kd == calculateStochastic(Highs(candles), Lows(candles),
                                Closes(candles), kPeriod, dPeriod) IN
  Returned([series      |-> [k |-> kd.k, d |-> kd.d],
            current     |-> [k |-> LastOr(kd.k, Whole(50)),
                             d |-> LastOr(kd.d, Whole(50))],
            timestamps  |-> Slice(Timestamps(candles), kPeriod - 1),
            historySize |-> Len(kd.k)])
ManagerADX(candles, period) ==
  LET result == calculateADX(Highs(candles), Lows(candles), Closes(candles),
                             period) IN
  Returned([series      |-> [adx |-> result.adx, plusDI |-> result.plusDI,
                             minusDI |-> result.minusDI],
            current     |-> result.current,
            timestamps  |-> Slice(Timestamps(candles), period),
            historySize |-> Len(result.adx)])
ManagerIchimoku(candles, tenkanPeriod, kijunPeriod, senkouBPeriod) ==
  LET result == calculateIchimoku(Highs(candles), Lows(candles), tenkanPeriod,
                                  kijunPeriod, senkouBPeriod) IN
  Returned([series      |-> [tenkan |-> result.tenkan, kijun |-> result.kijun,
                             senkouA |-> result.senkouA,
                             senkouB |-> result.senkouB,
                             chikou |-> result.chikou],
            current     |-> result.current,
            timestamps  |-> SliceTo(Timestamps(candles), 0, Len(result.tenkan)),
            historySize |-> Len(result.tenkan)])

\* IndicatorManager.calculate(candles, {indicator, params}): the value its
\* promise resolves to, or the error it rejects with
calculate(candles, indicator, params) ==
  CASE indicator = "RSI" -> Returned(calculateRSI(candles, params.period))
    [] indicator = "MACD" ->
         Returned(calculateMACD(candles, params.fastPeriod, params.slowPeriod,
                                params.signalPeriod))
    [] indicator = "BOLLINGER" ->
         Returned(calculateBollingerBands(candles, params.period, params.std))
    [] indicator = "SMA" -> ManagerSMA(candles, params.period)
    [] indicator = "EMA" -> ManagerEMA(candles, params.period)
    [] indicator = "ATR" -> ManagerATR(candles, params.period)
    [] indicator = "STOCHASTIC" ->
         ManagerStochastic(candles, params.kPeriod, params.dPeriod)
    [] indicator = "ADX" -> ManagerADX(candles, params.period)
    [] indicator = "ICHIMOKU" ->
         ManagerIchimoku(candles, params.tenkanPeriod, params.kijunPeriod,
                         params.senkouBPeriod)
    [] OTHER -> [how |-> "throw", what |-> "Unsupported indicator"]

\* the primary history array of a family, whose length is historySize
Primary(indicator) ==
  CASE indicator = "RSI" -> "rsi"
    [] indicator = "MACD" -> "macd"
    [] indicator = "BOLLINGER" -> "middle"
    [] indicator = "SMA" -> "sma"
    [] indicator = "EMA" -> "ema"
    [] indicator = "ATR" -> "atr"
    [] indicator = "STOCHASTIC" -> "k"
    [] indicator = "ADX" -> "adx"
    [] indicator = "ICHIMOKU" -> "tenkan"
\* the value of current on an empty history: 50 for the oscillators RSI and
\* Stochastic, 0 for the others
DefaultCurrent(indicator) ==
  IF indicator \in {"RSI", "STOCHASTIC"} THEN Whole(50) ELSE Whole(0)
\* the largest period among the parameters of a call
Period(indicator, params) ==
  CASE indicator = "MACD" -> params.slowPeriod
    [] indicator = "STOCHASTIC" -> params.kPeriod
    [] indicator = "ICHIMOKU" -> params.senkouBPeriod
    [] OTHER -> params.period

\* the parameter objects explored for each family (DEFAULT_INDICATOR_PARAMS
\* scaled down to the lengths of the series explored)
Indicators == {"RSI", "MACD", "BOLLINGER", "SMA", "EMA", "ATR", "STOCHASTIC",
               "ADX", "ICHIMOKU"}
ParamsOf(indicator) ==
  CASE indicator = "MACD" ->
         {x \in [fastPeriod : 1..MaxPeriod, slowPeriod : 1..MaxPeriod + 1,
                 signalPeriod : 1..MaxPeriod] : x.fastPeriod < x.slowPeriod}
    [] indicator = "BOLLINGER" ->
         {[period |-> p, std |-> 2] : p \in 1..MaxPeriod}
    [] indicator = "STOCHASTIC" ->
         {[kPeriod |-> k, dPeriod |-> d] : k \in 1..MaxPeriod, d \in 1..MaxPeriod}
    [] indicator = "ICHIMOKU" ->
         {x \in [tenkanPeriod : 1..MaxPeriod, kijunPeriod : 1..MaxPeriod,
                 senkouBPeriod : 1..MaxPeriod + 1] :
            x.tenkanPeriod <= x.kijunPeriod /\ x.kijunPeriod <= x.senkouBPeriod}
    [] OTHER -> {[period |-> p] : p \in 1..MaxPeriod}

\* candles as parseCandle makes them: low <= close <= high, times ascending
CandleShapes ==
  {x \in [close : 0..MaxPrice, high : 0..MaxPrice, low : 0..MaxPrice] :
     x.low <= x.close /\ x.close <= x.high}
\* candles that differ in their close only, for the calculators that read
\* nothing else
CloseShapes == {[close |-> p, high |-> p, low |-> p] : p \in 0..MaxClose}
CandleSeries(shapes) ==
  {[i \in 1..Len(s) |-> Candle(i, s[i].close, s[i].high, s[i].low,
                               s[i].close, NoVolume)] :
     s \in UNION {[1..n -> shapes] : n \in 0..MaxCandles}}
NoOut == [how |-> "none"]
NoCalc == [indicator |-> "none", out |-> NoOut]
\* the calls explored of one family
Calls(indicator, shapes) ==
  {[indicator |-> indicator, candles |-> c, params |-> p, out |-> NoOut] :
     c \in CandleSeries(shapes), p \in ParamsOf(indicator)}

\* one call of IndicatorManager.calculate
Calculate ==
  /\ calc.indicator # "none"
  /\ calc.out = NoOut
  /\ calc' = [calc EXCEPT !.out = calculate(calc.candles, calc.indicator,
                                             calc.params)]
  /\ UNCHANGED <<connVars, mdVars, wsVars, getVars, clientVars, ind, wsm>>


\* ------------------------------------------------------------------ Init
InitCore ==
  /\ cfgReconnect \in BOOLEAN
  /\ cfgAttempts \in 1..MaxAttempts
  /\ token \in BOOLEAN
  /\ socket = NoSocket
  /\ connected = FALSE
  /\ reconnectAttempt = 0
  /\ pingInterval = 0
  /\ intervals = {}
  /\ calls = [c \in CallIds |-> NoCall]
  /\ nCalls = 0
  /\ nUser = 0
  /\ nPings = 0
  /\ userClosed = FALSE
  /\ sent = [c \in CallIds |-> <<>>]
  /\ subscriptions = <<>>
  /\ handles = <<>>
  /\ candleStreams = [a \in Assets |-> <<>>]
  /\ nIngested = [a \in Assets |-> 0]
  /\ maxDropped = [a \in Assets |-> -1]
  /\ lastIn = NoInput
  /\ priceStreams = [a \in Assets |-> <<>>]
  /\ nFrames = 0
  /\ invoked = <<>>
  /\ lastOp = <<"none", 0>>
  /\ messageHandlers = [ch \in Channels |-> <<>>]
  /\ dispatch = NoDispatch
  /\ raw = NoFrame
  /\ routed = <<>>
  /\ escaped = FALSE
  /\ afterBad = FALSE
  /\ gets = <<>>
  /\ returned = <<>>
  /\ clientConnected = FALSE
  /\ clientPc = [c \in CallIds |-> "ws"]
  /\ ind = NoIndicator

Init ==
  /\ InitCore
  /\ wsm = NoWsm
  /\ calc = NoCalc

\* a WebSocketManager configured to reconnect, with reconnectAttempts set
InitWsm ==
  /\ InitCore /\ ~cfgReconnect /\ cfgAttempts = 1 /\ ~token
  /\ wsm \in {[NoWsm EXCEPT !.maxAttempts = n] : n \in 1..MaxAttempts}
  /\ calc = NoCalc

NextWsm ==
  \/ WsmConnect
  \/ \E c \in CallIds : WsmOnOpen(c)
  \/ \E c \in CallIds : WsmOnError(c)
  \/ \E c \in CallIds : WsmOnClose(c)
  \/ \E c \in CallIds : WsmOnTimeout(c)
  \/ WsmOnRetryTimer
  \/ WsmDisconnect

SpecWsm == InitWsm /\ [][NextWsm]_vars

\* IndicatorManager.calculate on every family
InitCalculate ==
  /\ InitCore /\ ~cfgReconnect /\ cfgAttempts = 1 /\ ~token
  /\ wsm = NoWsm
  /\ calc \in UNION {Calls(i, CandleShapes) : i \in Indicators}

NextCalculate == Calculate

SpecCalculate == InitCalculate /\ [][NextCalculate]_vars

\* IndicatorManager.calculate of RSI on every series of closes
InitRSI ==
  /\ InitCore /\ ~cfgReconnect /\ cfgAttempts = 1 /\ ~token
  /\ wsm = NoWsm
  /\ calc \in Calls("RSI", CloseShapes)

SpecRSI == InitRSI /\ [][NextCalculate]_vars

Next ==
  \/ Connect
  \/ \E c \in CallIds : OnOpen(c)
  \/ \E c \in CallIds : OnClose(c)
  \/ \E c \in CallIds : OnError(c)
  \/ \E c \in CallIds : OnTimeout(c)
  \/ \E c \in CallIds : OnRetryTimer(c)
  \/ Disconnect

Spec == Init /\ [][Next]_vars

\* QuotexClient.connect over its SocketIOManager, which it configures
\* with reconnect: true
InitClient == Init /\ cfgReconnect

NextClient ==
  \/ NoResumeDue /\ Connect
  \/ \E c \in CallIds : NoResumeDue /\ OnOpen(c)
  \/ \E c \in CallIds : NoResumeDue /\ OnClose(c)
  \/ \E c \in CallIds : NoResumeDue /\ OnError(c)
  \/ \E c \in CallIds : NoResumeDue /\ OnTimeout(c)
  \/ \E c \in CallIds : NoResumeDue /\ OnRetryTimer(c)
  \/ \E c \in CallIds : ClientResume(c)
  \/ \E c \in CallIds : NoResumeDue /\ ClientReturn(c)

SpecClient == InitClient /\ [][NextClient]_vars

\* the connection of a manager configured to reconnect, without a token
\* (the token only adds the authorization frame to the frames sent on open)
InitAttempts == InitClient /\ ~token

SpecAttempts == InitAttempts /\ [][Next]_vars

\* QuotexClient.connect() followed by QuotexClient.reconnect() calls, each
\* a disconnect() and, after a sleep of 1 s, a connect(), over the
\* reconnecting manager that QuotexClient creates
NextReconnect ==
  \/ (nUser = 0 \/ userClosed) /\ ConnectUpTo(MaxUserConnects + 1)
  \/ \E c \in CallIds : OnOpen(c)
  \/ \E c \in CallIds : OnClose(c)
  \/ \E c \in CallIds : OnError(c)
  \/ \E c \in CallIds : OnTimeout(c)
  \/ \E c \in CallIds : OnRetryTimer(c)
  \/ Disconnect

SpecReconnect == InitClient /\ [][NextReconnect]_vars

\* the connection together with the firings of the keepalive interval
NextKeepalive ==
  \/ Next
  \/ \E h \in CallIds : OnPing(h)

SpecKeepalive == Init /\ [][NextKeepalive]_vars

\* the connection together with candle-stream subscriptions
NextStream ==
  \/ Next
  \/ \E a \in Assets, p \in Periods, fn \in Fns : SubscribeToCandleStream(a, p, fn)

SpecStream == Init /\ [][NextStream]_vars

\* the market-data subscriptions over one connection
NextMD ==
  \/ Connect
  \/ \E c \in CallIds : OnOpen(c)
  \/ \E c \in CallIds : OnClose(c)
  \/ \E a \in Assets, p \in Periods, fn \in Fns : SubscribeToCandleStream(a, p, fn)
  \/ \E a \in Assets, p \in Periods, fn \in Fns : SubscribeToPriceStream(a, p, fn)
  \/ \E i \in 1..MaxSubs : Cancel(i)
  \/ \E a \in Assets, t \in Times, price \in Prices, thr \in SUBSET Fns :
        OnTick(a, t, price, thr)
  \/ \E a \in Assets, t \in Times, price \in Prices, thr \in SUBSET Fns :
        OnPrice(a, t, price, thr)

\* reconnect disabled and no credential token: neither is read by the
\* market-data operations
InitMD == Init /\ ~cfgReconnect /\ cfgAttempts = 1 /\ ~token

SpecMD == InitMD /\ [][NextMD]_vars

\* the channel dispatcher over one connection
NextDisp ==
  \/ Connect
  \/ \E c \in CallIds : OnOpen(c)
  \/ \E ch \in Channels, h \in Handlers : Subscribe(ch, h)
  \/ \E ch \in Channels, h \in Handlers : Off(ch, h)
  \/ \E ch \in Channels, beh \in [Handlers -> Behaviours] : OnMessage(ch, beh)

SpecDisp == InitMD /\ [][NextDisp]_vars

\* the dispatcher of one channel over one connection
NextOrder ==
  \/ Connect
  \/ \E c \in CallIds : OnOpen(c)
  \/ \E h \in Handlers : Subscribe("tick", h)
  \/ \E h \in Handlers : Off("tick", h)
  \/ \E beh \in [Handlers -> Behaviours] : OnMessage("tick", beh)

SpecOrder == InitMD /\ [][NextOrder]_vars

\* the candle buffers over one connection, without subscribers
NextCandles ==
  \/ Connect
  \/ \E c \in CallIds : OnOpen(c)
  \/ \E a \in Assets, p \in Periods, pl \in HistoryPayloads :
        OnHistory(a, p, pl.candles, pl.history, {})
  \/ \E a \in Assets, p \in Periods, t \in CandleTimes : OnCandle(a, p, t, 1, {})

SpecCandles == InitMD /\ [][NextCandles]_vars

\* the notification of the candle-stream subscribers over one connection
NextNotify ==
  \/ Connect
  \/ \E c \in CallIds : OnOpen(c)
  \/ \E a \in Assets, p \in Periods, fn \in Fns : SubscribeToCandleStream(a, p, fn)
  \/ \E a \in Assets, p \in Periods, pl \in SmallPayloads :
        \E thr \in SUBSET FnsOf(a) : OnHistory(a, p, pl.candles, pl.history, thr)
  \/ \E a \in Assets, p \in Periods, t \in CandleTimes :
        \E thr \in SUBSET FnsOf(a) : OnCandle(a, p, t, 1, thr)
  \/ \E a \in Assets, t \in Times, price \in Prices :
        \E thr \in SUBSET FnsOf(a) : OnTick(a, t, price, thr)

SpecNotify == InitMD /\ [][NextNotify]_vars

\* every handler returns normally
AllReturn == [h \in Handlers |-> [op |-> "ok", x |-> ""]]

\* the two revisions differ in the raw-payload branch only
RevsFor(f) == IF f.pre = EOT THEN Revisions ELSE {"part_007"}

\* the subscriptions of the application: one callback per channel
CodecSubs == {<<"tick", "h1">>, <<"message", "h2">>}

\* the decoding of inbound frames over one connection
NextCodec ==
  \/ Connect
  \/ \E c \in CallIds : OnOpen(c)
  \/ \E sub \in CodecSubs : Subscribe(sub[1], sub[2])
  \/ \E f \in Frames : \E rev \in RevsFor(f) : OnRawMessage(rev, f, AllReturn)

SpecCodec == InitMD /\ [][NextCodec]_vars

\* getCandles and calculateIndicator calls, with the history responses
\* that answer them; timers fire and a sleeping call is resumed
GetPayloads ==
  {[candles |-> x, history |-> <<>>] : x \in {<<Entry(1)>>, <<Entry(0)>>}}

NextGet ==
  \/ Connect
  \/ \E c \in CallIds : OnOpen(c)
  \/ GetCandles("getCandles", "EURUSD", 60)
  \/ \E k \in 1..MaxGets : GetWake(k)
  \/ \E k \in 1..MaxGets : Deadline(k)
  \/ \E k \in 1..MaxGets : Poll(k)
  \/ \E pl \in GetPayloads :
        OnHistory("EURUSD", 60, pl.candles, pl.history, {})

FairGet ==
  \A k \in 1..MaxGets :
    WF_vars(GetWake(k)) /\ WF_vars(Deadline(k)) /\ WF_vars(Poll(k))

SpecGet == InitMD /\ [][NextGet]_vars /\ FairGet

\* calculateIndicator calls with the history responses that answer them
NextCalc ==
  \/ Connect
  \/ \E c \in CallIds : OnOpen(c)
  \/ GetCandles("calculateIndicator", "EURUSD", 60)
  \/ \E k \in 1..MaxGets : GetWake(k)
  \/ \E k \in 1..MaxGets : Deadline(k)
  \/ \E k \in 1..MaxGets : Poll(k)
  \/ \E pl \in GetPayloads :
        OnHistory("EURUSD", 60, pl.candles, pl.history, {})

SpecCalc == InitMD /\ [][NextCalc]_vars

\* one subscribeIndicator call: its seed, then the candles and ticks that
\* reach its closure
SeedPayloads ==
  {[candles |-> x, history |-> <<>>] :
     x \in {<<Entry(1)>>, Run(1, WindowCap + 1)}}

NextInd ==
  \/ Connect
  \/ \E c \in CallIds : OnOpen(c)
  \/ SubscribeIndicator("EURUSD", 60)
  \/ \E k \in 1..MaxGets : GetWake(k)
  \/ \E k \in 1..MaxGets : Deadline(k)
  \/ \E k \in 1..MaxGets : Poll(k)
  \/ \E pl \in SeedPayloads :
        OnHistory("EURUSD", 60, pl.candles, pl.history, {})
  \/ \E t \in CandleTimes : OnCandle("EURUSD", 60, t, 1, {})
  \/ \E t \in Times : OnTick("EURUSD", t, 1, {})

SpecInd == InitMD /\ [][NextInd]_vars

\* callers that change the arrays which getCandles and getRealtimeCandles
\* gave them, while payloads go on arriving
NextCopy ==
  \/ nCalls = 0 /\ Connect
  \/ \E c \in CallIds : OnOpen(c)
  \/ /\ Len(returned) < MaxReturned
     /\ \A k \in 1..Len(gets) : gets[k].pc = "done"
     /\ GetCandles("getCandles", "EURUSD", 60)
  \/ \E k \in 1..MaxGets : GetWake(k)
  \/ \E k \in 1..MaxGets : Deadline(k)
  \/ \E k \in 1..MaxGets : Poll(k)
  \/ /\ \A k \in 1..Len(gets) : gets[k].pc = "done"
     /\ GetRealtimeCandles("EURUSD")
  \/ \E i \in 1..(MaxGets + MaxReturned), op \in MutationOps :
        MutateReturned(i, op)
  \/ \E pl \in GetPayloads :
        OnHistory("EURUSD", 60, pl.candles, pl.history, {})
  \/ \E t \in Times : OnCandle("EURUSD", 60, t, 1, {})

SpecCopy == InitMD /\ [][NextCopy]_vars

\* a getCandles call for period 60 whose history responses arrive while the
\* live candle updates of period 0 of the same asset go on
NextOverlap ==
  \/ Connect
  \/ \E c \in CallIds : OnOpen(c)
  \/ GetCandles("getCandles", "EURUSD", 60)
  \/ \E k \in 1..MaxGets : GetWake(k)
  \/ \E k \in 1..MaxGets : Deadline(k)
  \/ \E k \in 1..MaxGets : Poll(k)
  \/ \E pl \in GetPayloads :
        OnHistory("EURUSD", 60, pl.candles, pl.history, {})
  \/ \E t \in CandleTimes : OnCandle("EURUSD", 0, t, 1, {})

SpecOverlap == InitMD /\ [][NextOverlap]_vars

\* one subscribeIndicator call, other candle-stream subscribers of the
\* asset, and calls of the indicator's cancel handle, by the caller or by
\* one of these subscribers while it handles a candle
NextIndCancel ==
  \/ Connect
  \/ \E c \in CallIds : OnOpen(c)
  \/ SubscribeIndicator("EURUSD", 60)
  \/ \E k \in 1..MaxGets : GetWake(k)
  \/ \E k \in 1..MaxGets : Deadline(k)
  \/ \E k \in 1..MaxGets : Poll(k)
  \/ \E fn \in Fns : SubscribeToCandleStream("EURUSD", 60, fn)
  \/ \E t \in CandleTimes : \E canc \in SUBSET (FnsOf("EURUSD") \cap Fns) :
        CandleUpdate("EURUSD", 60, t, 1, {}, canc)
  \/ CancelIndicator

SpecIndCancel == InitMD /\ [][NextIndCancel]_vars

\* ------------------------------------------------- connection properties
Live(c)   == calls[c].state \in {"connecting", "open", "closing", "failing"}
\* the attempt of call c is over and its socket never opened
Failed(c) == calls[c].state = "closed" /\ ~calls[c].everOpen
TimerCalls == {c \in 1..nCalls : calls[c].origin = "timer"}

\* the last n reconnect attempts (connect() calls made by the retry timer)
\* all failed
LastFailed(n) ==
  \E S \in SUBSET TimerCalls :
    /\ Cardinality(S) = n
    /\ \A c \in S : Failed(c)
    /\ \A c \in TimerCalls : (\E d \in S : d <= c) => c \in S

\* C1: after disconnect() the manager does not become connected again
\* unless the caller issues a fresh connect().
C1_NoReconnectAfterDisconnect == userClosed => ~IsConnected

\* C2: every connect() call resolves: a call whose 10 s timeout has fired
\* and whose socket is closed (no event that could settle its promise is
\* left) has been resolved with a boolean.
C2_EveryConnectResolves ==
  \A c \in 1..nCalls :
    (calls[c].state = "closed" /\ ~calls[c].timeout)
      => calls[c].resolved \in {"true", "false"}

\* C3: in a session started by one connect(), once reconnectAttempts
\* consecutive reconnect attempts have failed, no retry timer is pending,
\* no socket is connecting or open and the manager is disconnected; as no
\* event is left that could change this, it stays so.
C3_StopsAfterExhaustion ==
  (cfgReconnect /\ nUser = 1 /\ LastFailed(EffAttempts))
    => /\ ~connected
       /\ \A c \in 1..nCalls : ~calls[c].retry /\ ~Live(c)

C3_Witness ==
  /\ cfgReconnect /\ nUser = 1 /\ EffAttempts = MaxAttempts
  /\ LastFailed(EffAttempts)
  /\ calls[1].everOpen

\* C4: an attempt that fails before it ever opened resolves connect() with
\* false and schedules no reconnect.
C4_NoRetryBeforeOpen ==
  \A c \in 1..nCalls :
    Failed(c) => (calls[c].resolved = "false" /\ ~calls[c].sched)

\* C31: with reconnect enabled, once an established connection has
\* dropped and the caller has not disconnected, the manager is at rest
\* (not connected, no socket alive, no reconnect timer pending) only when
\* reconnectAttempts attempts have been made since the last open, and then
\* state.reconnecting is false.
C31_RetriesUntilLimit ==
  ( /\ wsm.reconnect /\ wsm.dropped /\ ~wsm.userClosed
    /\ ~wsm.connected /\ ~wsm.timer
    /\ \A c \in 1..wsm.nSocks : wsm.socks[c].state = "closed" )
    => (wsm.reconnectAttempts >= wsm.maxAttempts /\ ~wsm.reconnecting)

\* C36: at any time at most one keepalive interval is armed and at most one
\* socket with attached handlers is connecting or open.
C36_OneTimerOneSocket ==
  /\ Cardinality(intervals) <= 1
  /\ Cardinality({c \in 1..nCalls : calls[c].state \in {"connecting", "open"}}) <= 1

\* C37: isConnected() is true exactly when the socket that the manager
\* holds is open.
C37_ConnectedIffCurrentOpen ==
  IsConnected <=> (socket # NoSocket /\ calls[socket].state = "open")

C29_BufferIsKept ==
  [][ \A a \in Assets : candleStreams[a] # <<>> => candleStreams'[a] # <<>> ]_vars

\* C28: a caller's push, splice or sort of an array that getCandles or
\* getRealtimeCandles returned leaves every candle buffer as it was, and a
\* step that changes a candle buffer leaves the elements of every array
\* returned before as they were.
C28_ReturnedAreCopies ==
  [][ /\ \A i \in 1..Len(returned), op \in MutationOps :
           MutateReturned(i, op) => candleStreams' = candleStreams
      /\ \A i \in 1..Len(returned) :
           candleStreams' # candleStreams
             => Elements(returned[i])' = Elements(returned[i]) ]_vars

\* an array that was returned with candles in it, on which the caller
\* pushed, and the buffer received a candle after it was returned
C28_Witness ==
  \E i \in 1..Len(returned) :
       LET arr == Elements(returned[i])
           buf == candleStreams[returned[i].asset]
       IN /\ Mutated("push", <<>>)[1] \in SeqToSet(arr)
          /\ SeqToSet(arr) \cap SeqToSet(buf) # {}
          /\ SeqToSet(buf) \ SeqToSet(arr) # {}

\* the entries of q that are in S, in the order of q
RECURSIVE Only(_, _)
Only(q, S) ==
  IF q = <<>> THEN <<>>
  ELSE IF Head(q) \in S THEN <<Head(q)>> \o Only(Tail(q), S)
  ELSE Only(Tail(q), S)

Pos(q, x) == CHOOSE i \in 1..Len(q) : q[i] = x

\* the handlers that the handlers invoked by a dispatch unregistered
Unregistered(inv, beh) ==
  {beh[inv[i]].x : i \in {j \in 1..Len(inv) : beh[inv[j]].op = "off"}}

\* C27: an inbound frame is dispatched when it arrives, before the next
\* frame is read, and its dispatch invokes the callbacks of the channel in
\* the order of their registration: a subscribe call puts the new callback
\* after all registered ones; the callbacks registered before the dispatch
\* and not unregistered while it runs are invoked once each in that order,
\* and a callback registered while it runs is invoked after all of them.
C27_RegistrationOrder ==
  [][ /\ \A ch \in Channels, h \in Handlers :
           (Subscribe(ch, h) /\ h \notin SeqToSet(messageHandlers[ch]))
             => /\ Only(messageHandlers'[ch], SeqToSet(messageHandlers[ch]))
                     = messageHandlers[ch]
                /\ \A g \in SeqToSet(messageHandlers[ch]) :
                      Pos(messageHandlers'[ch], g) < Pos(messageHandlers'[ch], h)
      /\ \A ch \in Channels, beh \in [Handlers -> Behaviours] :
           (nFrames' = nFrames + 1 /\ dispatch'.ch = ch /\ OnMessage(ch, beh))
             => LET pre == messageHandlers[ch]
                    inv == dispatch'.inv
                    stable == SeqToSet(pre) \ Unregistered(inv, beh)
                IN /\ Only(inv, stable) = Only(pre, stable)
                   /\ \A i, j \in 1..Len(inv) :
                        (inv[i] \notin SeqToSet(pre) /\ inv[j] \in stable)
                          => j < i ]_vars

\* a dispatch invoked h2 and then h1, registered in that order, and none of
\* them changed the registrations
C27_Witness ==
  /\ dispatch.ch \in Channels
  /\ dispatch.inv = <<"h2", "h1">>
  /\ messageHandlers[dispatch.ch] = <<"h2", "h1">>
  /\ dispatch.start = dispatch.end

\* C26: when a keepalive interval has elapsed since a ping was sent on the
\* open socket and no pong arrived (no inbound frame arrives at all in
\* SpecKeepalive), the supervisor is no longer in the open state.
C26_KeepaliveTimeout ==
  [][ ( /\ IsConnected
        /\ calls[socket].state = "open"
        /\ Msg("2") \in SeqToSet(sent[socket])
        /\ nPings' = nPings + 1 )
        => ~IsConnected' ]_vars

\* C25: when QuotexClient.connect() returns success: true and no socket
\* that opened has closed since, QuotexClient.isConnected() is true.
C25_SuccessMeansConnected ==
  [][ \A c \in CallIds :
        ( /\ clientPc[c] = "sleep" /\ clientPc'[c] = "done"
          /\ \A d \in 1..nCalls : calls[d].everOpen => calls[d].state = "open" )
          => ClientIsConnected' ]_vars

\* ------------------------------------------------ subscription properties
HandleRegistered(h) ==
  IF h.kind = "candle"
  THEN Registered(subscriptions, CandleKey(h.asset, h.period), UserCb(h.fn))
  ELSE Registered(subscriptions, PriceKey(h.asset), UserCb(h.fn))

\* C5: when a reconnect attempt has opened, the follow commands of every
\* candle-stream subscription that was followed on an earlier connection
\* and is still registered have been sent on the new connection.
C5_FollowResentOnReconnect ==
  \A c \in 1..nCalls : \A i \in 1..Len(handles) :
    ( /\ calls[c].origin = "timer" /\ calls[c].state = "open"
      /\ socket = c /\ connected
      /\ handles[i].kind = "candle" /\ HandleRegistered(handles[i])
      /\ \E d \in 1..(c - 1) :
           <<"depth/follow", handles[i].asset, 0>> \in SeqToSet(sent[d]) )
    => /\ <<"depth/follow", handles[i].asset, 0>> \in SeqToSet(sent[c])
       /\ <<"instruments/update", handles[i].asset, handles[i].period>>
            \in SeqToSet(sent[c])

\* C8: calling a cancel handle again right after it was called changes
\* neither the subscriber registry nor the frames sent.
C8_CancelIdempotent ==
  [][ \A i \in 1..Len(handles) :
        (lastOp = <<"cancel", i>> /\ handles'[i].n = handles[i].n + 1)
          => (subscriptions' = subscriptions /\ sent' = sent) ]_vars

\* C9: a subscription whose cancel handle was never called is still
\* registered, whatever other cancel handles were called.
C9_CancelLeavesOthers ==
  \A i \in 1..Len(handles) : handles[i].n = 0 => HandleRegistered(handles[i])

\* C10: a callback all of whose subscriptions are price-stream subscriptions
\* that were cancelled is not invoked by any inbound payload.
C10_SilentAfterUnsubscribe ==
  \A fn \in Fns :
    ( /\ \E i \in 1..Len(handles) : handles[i].fn = fn
      /\ \A i \in 1..Len(handles) :
           handles[i].fn = fn => (handles[i].kind = "price" /\ handles[i].n >= 1) )
    => fn \notin SeqToSet(invoked)

\* C22: a call of a candle-stream cancel handle sends depth/unfollow only
\* if it removes a callback that was registered and leaves no callback
\* registered under the handle's asset and period.
C22_UnfollowOnlyOnLastRelease ==
  [][ \A i \in 1..Len(handles) :
        ( /\ handles'[i].n = handles[i].n + 1
          /\ handles[i].kind = "candle"
          /\ sent' # sent )
          => /\ HandleRegistered(handles[i])
             /\ SizeIsZero(subscriptions',
                           CandleKey(handles[i].asset, handles[i].period)) ]_vars

\* the candles that the history responses explored for period p hold
OwnCandles(p) ==
  UNION {SeqToSet(HistoryCandles(p, pl.candles, pl.history).new) : pl \in GetPayloads}

\* C39: the array that a getCandles call returned holds only candles of
\* the history responses for its period, none built from a live candle
\* update of another period of the asset.
C39_OnlyOwnCandles ==
  \A k \in 1..Len(gets) :
    gets[k].pc = "done"
      => SeqToSet(Elements(returned[gets[k].res])) \subseteq OwnCandles(gets[k].period)

\* C38: a call of a candle-stream cancel handle sends depth/unfollow for
\* its asset only when no candle-stream callback is left registered for
\* that asset under any period.
C38_UnfollowLeavesOtherPeriods ==
  [][ \A i \in 1..Len(handles) :
        ( /\ handles'[i].n = handles[i].n + 1
          /\ handles[i].kind = "candle"
          /\ sent' # sent )
          => \A j \in 1..Len(subscriptions') :
               ( /\ subscriptions'[j].key[1] = "candles"
                 /\ subscriptions'[j].key[2] = handles[i].asset )
                 => subscriptions'[j].cbs = <<>> ]_vars

\* -------------------------------------------------- dispatcher properties
\* C6: when a handler threw during a dispatch, every handler that was
\* registered on the channel when the dispatch started and still is when it
\* ends was invoked for the payload; this holds for later frames too.
C6_ThrowIsIsolated ==
  dispatch.threw # {}
    => \A h \in dispatch.start :
         h \in dispatch.end => h \in SeqToSet(dispatch.inv)

C6_Witness ==
  /\ dispatch.after
  /\ dispatch.threw # {}
  /\ \E i \in 1..Len(dispatch.inv) : \E j \in 1..Len(dispatch.inv) :
       i < j /\ dispatch.inv[i] \in dispatch.threw
             /\ dispatch.inv[j] \notin dispatch.threw

\* C7: a dispatch invokes exactly the handlers registered on the channel
\* when it started, each once.
C7_DispatchUsesSnapshot ==
  /\ SeqToSet(dispatch.inv) = dispatch.start
  /\ Len(dispatch.inv) = Cardinality(dispatch.start)

\* ------------------------------------------------------ decoder properties
\* a well-formed frame 42[...] whose element 0 is a string
EventFrame(f) ==
  /\ f.pre = "42" /\ f.wf
  /\ IsArray(f.val) /\ Len(f.val.a) >= 1 /\ f.val.a[1].t = "string"

C12_RawPayloadRules ==
  (raw.pre = EOT /\ raw.wf)
    => LET v == raw.val
           claimed ==
             IF IsArray(v) /\ Len(v.a) > InstrumentsMin /\ IsArray(v.a[1])
             THEN "instruments"
             ELSE IF /\ IsArray(v) /\ Len(v.a) = 1 /\ IsArray(v.a[1])
                     /\ Len(v.a[1].a) >= 2 /\ v.a[1].a[1].t = "string"
             THEN "tick"
             ELSE IF /\ v.t = "object"
                     /\ \/ Has(v, "candles") \/ Has(v, "history")
                        \/ Has(v, "open") /\ Has(v, "close") /\ Has(v, "asset")
             THEN "candles"
             ELSE IF v.t = "number" THEN "tick"
             ELSE "message"
       IN Len(routed) = 1 /\ routed[1].ch = claimed

C14_MalformedIsDropped ==
  [][ nFrames' = nFrames + 1
        => /\ Malformed(raw')
                => /\ routed' = <<>>
                   /\ ~escaped'
                   /\ dispatch'.inv = <<>>
                   /\ connVars' = connVars
                   /\ messageHandlers' = messageHandlers
                   /\ subscriptions' = subscriptions
           /\ (afterBad' /\ EventFrame(raw'))
                => /\ routed' = Call(raw'.val.a[1].s, Elem(raw'.val, 2))
                   /\ ~escaped'
                   /\ raw'.val.a[1].s \in Channels
                        => SeqToSet(dispatch'.inv) =
                             SeqToSet(messageHandlers[raw'.val.a[1].s]) ]_vars

C14_Witness ==
  /\ afterBad
  /\ EventFrame(raw)
  /\ routed # <<>>
  /\ dispatch.inv # <<>>

\* -------------------------------------------------- candle buffer properties
Sorted(q) == \A i \in 1..(Len(q) - 1) : q[i].time <= q[i + 1].time

\* C15: once more than 1000 candles have been ingested for an asset, its
\* buffer has exactly 1000 entries, in ascending time order, and they are
\* the ones with the greatest time: no candle removed from the buffer is
\* newer than one that is kept.
C15_BufferKeepsNewest ==
  \A a \in Assets :
    nIngested[a] > CandleCap
      => /\ Len(candleStreams[a]) = CandleCap
         /\ Sorted(candleStreams[a])
         /\ \A i \in 1..Len(candleStreams[a]) :
              candleStreams[a][i].time >= maxDropped[a]

\* C16: every per-asset candle buffer is sorted in ascending order of time.
C16_BufferSorted == \A a \in Assets : Sorted(candleStreams[a])

\* C17: no per-asset candle buffer holds two candles with the same time.
C17_NoDuplicateTimes ==
  \A a \in Assets :
    Cardinality({candleStreams[a][i].time : i \in 1..Len(candleStreams[a])})
      = Len(candleStreams[a])

\* C18: a history payload of [timestamp, price] ticks with period P > 0
\* adds one candle per distinct bucket floor(timestamp / P) * P, whose open
\* is the price of the earliest tick of the bucket by timestamp, close that
\* of the latest, high / low the greatest / least price and volume the
\* number of ticks, whatever the order of the ticks in the payload.
C18_BucketCandles ==
  (lastIn.kind = "history" /\ lastIn.ticks # <<>>)
    => LET ticks == lastIn.ticks
           P == lastIn.period
           buf == candleStreams[lastIn.asset]
           buckets == {BucketTime(ticks[k][1], P) : k \in 1..Len(ticks)}
           In(b) == {k \in 1..Len(ticks) : BucketTime(ticks[k][1], P) = b}
           first(b) == CHOOSE k \in In(b) : \A j \in In(b) : ticks[k][1] <= ticks[j][1]
           last(b) == CHOOSE k \in In(b) : \A j \in In(b) : ticks[k][1] >= ticks[j][1]
           high(b) == CHOOSE x \in {ticks[k][2] : k \in In(b)} :
                        \A k \in In(b) : ticks[k][2] <= x
           low(b) == CHOOSE x \in {ticks[k][2] : k \in In(b)} :
                       \A k \in In(b) : ticks[k][2] >= x
       IN /\ Len(buf) = Min2(CandleCap, lastIn.before + Cardinality(buckets))
          /\ \A b \in buckets :
               \E i \in 1..Len(buf) :
                 buf[i] = Candle(b, ticks[first(b)][2], high(b), low(b),
                                 ticks[last(b)][2], Cardinality(In(b)))

\* C19: after a tick [asset, time, price] on the channel tick, the asset's
\* candle buffer holds a candle at that time with open = high = low =
\* close = price.
C19_TickBecomesCandle ==
  lastIn.kind = "tick"
    => \E i \in 1..Len(candleStreams[lastIn.asset]) :
         LET c == candleStreams[lastIn.asset][i]
         IN /\ c.time = lastIn.time
            /\ c.open = lastIn.price /\ c.high = lastIn.price
            /\ c.low = lastIn.price /\ c.close = lastIn.price

\* C20: after a history response for an asset is ingested, every callback
\* registered through subscribeToCandleStream for that asset, under any
\* period, has been invoked exactly once.
C20_HistoryNotifiesAll ==
  (lastIn.kind = "history" /\ candleStreams[lastIn.asset] # <<>>)
    => \A fn \in FnsOf(lastIn.asset) :
         Cardinality({i \in 1..Len(invoked) : invoked[i] = fn}) = 1

C23_NoDataError ==
  \A k \in 1..Len(gets) :
    (gets[k].kind = "calculateIndicator" /\ gets[k].pc = "done")
      => LET candles == returned[gets[k].res].val
         IN /\ (gets[k].out = [how |-> "throw", what |-> NoCandlesError])
                 <=> (Len(candles) = 0)
            /\ Len(candles) >= 1
                 => gets[k].out = [how |-> "return",
                                   what |-> "IndicatorManager.calculate"]

C23_Witness ==
  \E k \in 1..Len(gets) :
    /\ gets[k].kind = "calculateIndicator" /\ gets[k].pc = "done"
    /\ gets[k].out = [how |-> "throw", what |-> NoCandlesError]
    /\ returned[gets[k].res].val = <<>>

\* --------------------------------------------------- indicator properties
\* C24: the user callback of subscribeIndicator is never invoked after the
\* cancel handle was called.
C24_SilentAfterCancel == ind.lateCalls = 0

\* C30: the array passed to the last recomputation has at most 100 entries
\* and is the end of the sequence made of the seed followed by the candles
\* passed to the closure, in that order, up to the newest one.
C30_WindowIsRecent ==
  ind.computed > 0
    => /\ Len(ind.lastWindow) <= WindowCap
       /\ ind.lastWindow = LastN(ind.received, WindowCap)
       /\ ind.lastWindow[Len(ind.lastWindow)] = ind.received[Len(ind.received)]

C30_Witness ==
  /\ ind.computed > 0
  /\ Len(ind.received) > WindowCap + 1
  /\ Len(ind.lastWindow) = WindowCap

\* C32: in every result of calculate, each current value is the last element
\* of the history array of its name when that array is not empty (also when
\* that element is 0), and is the default of the family (50 for RSI and
\* Stochastic, 0 for the others) when the array is empty.
C32_CurrentIsLast ==
  calc.out.how = "return" =>
    LET r == calc.out.result IN
    \A name \in DOMAIN r.current :
      IF r.series[name] = <<>>
        THEN r.current[name] = DefaultCurrent(calc.indicator)
        ELSE r.current[name] = r.series[name][Len(r.series[name])]

\* C33: in every result of calculate, timestamps, the primary history array
\* and historySize have the same length.
C33_TimestampsAligned ==
  calc.out.how = "return" =>
    LET r == calc.out.result IN
    /\ Len(r.timestamps) = Len(r.series[Primary(calc.indicator)])
    /\ Len(r.timestamps) = r.historySize

\* C34: a call of calculate on fewer candles than the period of the
\* indicator (none included) returns, with every history array empty and
\* every current value at the default of the family.
C34_ShortSeriesDefaults ==
  (calc.out # NoOut /\ Len(calc.candles) < Period(calc.indicator, calc.params))
    => /\ calc.out.how = "return"
       /\ \A name \in DOMAIN calc.out.result.series :
            calc.out.result.series[name] = <<>>
       /\ \A name \in DOMAIN calc.out.result.current :
            calc.out.result.current[name] = DefaultCurrent(calc.indicator)

\* C35: every value of the RSI series is a number from 0 to 100; on closes
\* that strictly increase, more of them than the period, and on closes that
\* are all equal, every value of the series is 100.
InRange(v) == ~IsNaN(v) /\ ~Less(v, Whole(0)) /\ ~Less(Whole(100), v)
Increasing(candles) ==
  \A i \in 1..Len(candles) - 1 : candles[i].close < candles[i + 1].close
Flat(candles) ==
  \A i \in 1..Len(candles) - 1 : candles[i].close = candles[i + 1].close
C35_RSIWithinRange ==
  (calc.indicator = "RSI" /\ calc.out.how = "return") =>
    LET rsi == calc.out.result.series.rsi IN
    /\ \A i \in 1..Len(rsi) : InRange(rsi[i])
    /\ (\/ Increasing(calc.candles) /\ Len(calc.candles) > calc.params.period
        \/ Flat(calc.candles))
         => \A i \in 1..Len(rsi) : rsi[i] = Whole(100)

\* RSI computed on strictly increasing closes, more than one value of it
C35_Witness ==
  /\ calc.indicator = "RSI" /\ calc.out.how = "return"
  /\ Increasing(calc.candles)
  /\ Len(calc.candles) > calc.params.period + 1
  /\ Len(calc.out.result.series.rsi) > 1
  /\ calc.out.result.current.rsi = Whole(100)

TypeOK ==
  /\ socket \in 0..MaxCalls
  /\ reconnectAttempt \in 0..EffAttempts
====
